---------------------------- MODULE Spec2Model ----------------------------
(***************************************************************************)
(* A model of the AlphaFold FUSE resolver (src/alphafold_fuse.py): the     *)
(* index tables it reads, the SQL queries of SQLReader, the path dispatch  *)
(* of AlphaFoldFS._fake_filesystem, the logging wrapper, the archive       *)
(* reader and its lru_cache.                                               *)
(*                                                                         *)
(* Python strings are sequences of one-character strings, so that          *)
(* split, replace, substr, upper and the lexicographic comparison of the   *)
(* code are computed character by character.                               *)
(***************************************************************************)
EXTENDS Integers, Sequences, FiniteSets, TLC

(***************************************************************************)
(* Characters and Python string operations                                 *)
(***************************************************************************)

\* The characters the model's strings use, in code point order.
CodePoints ==
    << ".", "0", "1", "2", "3", "4", "5", "6", "7", "8", "9",
       "A", "B", "C", "D", "E", "F", "G", "H", "I", "J", "K", "L", "M",
       "N", "O", "P", "Q", "R", "S", "T", "U", "V", "W", "X", "Y", "Z",
       "_",
       "a", "b", "c", "d", "e", "f", "g", "h", "i", "j", "k", "l", "m",
       "n", "o", "p", "q", "r", "s", "t", "u", "v", "w", "x", "y", "z" >>

Ord(c) == CHOOSE i \in 1..Len(CodePoints) : CodePoints[i] = c

Digits == << "0", "1", "2", "3", "4", "5", "6", "7", "8", "9" >>

IsDigit(c) == \E i \in 1..10 : Digits[i] = c

DigitVal(c) == (CHOOSE i \in 1..10 : Digits[i] = c) - 1

\* Python's str > str: lexicographic by code point, a proper prefix is smaller.
RECURSIVE StrGt(_, _)
StrGt(a, b) ==
    IF a = << >> THEN FALSE
    ELSE IF b = << >> THEN TRUE
    ELSE IF a[1] # b[1] THEN Ord(a[1]) > Ord(b[1])
    ELSE StrGt(Tail(a), Tail(b))

StartsWith(s, pat) ==
    /\ Len(s) >= Len(pat)
    /\ SubSeq(s, 1, Len(pat)) = pat

\* Python's s.replace(pat, ''): every non-overlapping occurrence, left to right.
RECURSIVE RemoveAll(_, _)
RemoveAll(s, pat) ==
    IF s = << >> THEN << >>
    ELSE IF StartsWith(s, pat) THEN RemoveAll(SubSeq(s, Len(pat) + 1, Len(s)), pat)
    ELSE << s[1] >> \o RemoveAll(Tail(s), pat)

Contains(s, c) == \E i \in 1..Len(s) : s[i] = c

\* Position of the first sep in s, Len(s) + 1 when there is none.
RECURSIVE FindChar(_, _, _)
FindChar(s, sep, i) ==
    IF i > Len(s) THEN i
    ELSE IF s[i] = sep THEN i
    ELSE FindChar(s, sep, i + 1)

\* s.split(sep)[0]
SplitFirst(s, sep) == SubSeq(s, 1, FindChar(s, sep, 1) - 1)

\* s.split(sep)[1], for s that holds sep
SplitSecond(s, sep) ==
    LET rest == SubSeq(s, FindChar(s, sep, 1) + 1, Len(s))
    IN  SubSeq(rest, 1, FindChar(rest, sep, 1) - 1)

Upper(c) ==
    IF Ord(c) >= Ord("a") /\ Ord(c) <= Ord("z") THEN CodePoints[Ord(c) - 27] ELSE c

\* s.upper()
StrUpper(s) == [i \in 1..Len(s) |-> Upper(s[i])]

\* str(n) for n >= 0
RECURSIVE IntToStr(_)
IntToStr(n) ==
    IF n < 10 THEN << Digits[n + 1] >>
    ELSE IntToStr(n \div 10) \o << Digits[(n % 10) + 1] >>

IsDigits(s) == s # << >> /\ \A i \in 1..Len(s) : IsDigit(s[i])

RECURSIVE StrToInt(_)
StrToInt(s) ==
    IF s = << >> THEN 0
    ELSE 10 * StrToInt(SubSeq(s, 1, Len(s) - 1)) + DigitVal(s[Len(s)])


(***************************************************************************)
(* Values                                                                  *)
(***************************************************************************)

\* Python's None where the code expects a number, a path or an identifier.
None == 0 - 1
NoneStr == "None"
NoneId == << "None" >>

\* A value of the versions table as Python reads it: an int or a str.
PyInt(n) == [t |-> "int", n |-> n, s |-> << >>]
PyStr(s) == [t |-> "str", n |-> 0, s |-> s]

\* The name a Direntry built from a Python value carries.
DirentName(v) == IF v.t = "int" THEN IntToStr(v.n) ELSE v.s

README == << "R", "E", "A", "D", "M", "E", ".", "m", "d" >>
UNIPROT == << "u", "n", "i", "p", "r", "o", "t" >>
PDB == << "p", "d", "b" >>
TAXONOMY == << "t", "a", "x", "o", "n", "o", "m", "y" >>
DOTCIF == << ".", "c", "i", "f" >>

(***************************************************************************)
(* The index and the archives the model's runs are drawn from              *)
(***************************************************************************)

\* Length of the longest decompressed member.
MaxLen == 3
\* read(path, size, offset) is tried for size in 0..MaxSize, offset in 0..MaxOffset.
MaxSize == 3
MaxOffset == 4

UX == << "P", "A", "B", "1" >>
UY == << "Q", "A", "B", "2" >>
UZ == << "R", "C", "4", "3" >>
\* cross-referenced, but in no archive
UQ == << "S", "C", "4", "9" >>
PDB1 == << "2", "D", "O", "G" >>
PDB2 == << "1", "A", "B", "C" >>

TAX1 == << "9", "6", "0", "6" >>
TAX2 == << "5", "6", "2" >>
TAX3 == << "1", "0" >>

\* The decompressed bytes of archive member k: MaxLen or MaxLen - 1 bytes,
\* different for every member.
MemberData(k) == [i \in 1..(MaxLen - (k % 2)) |-> 10 * k + i]

\* The archives: each member has a 512-byte header at offset, then size bytes of
\* gzip payload that decompress to data.
Member(k, relpath, offset, size) ==
    [relpath |-> relpath, offset |-> offset, size |-> size, data |-> MemberData(k)]

Archives ==
    { Member(1, "v9/a.tar", 0, 700),
      Member(2, "v9/a.tar", 1536, 300),
      Member(3, "v10/a.tar", 0, 512),
      Member(4, "v10/a.tar", 1024, 40) }

\* The files row the indexer records for an archive member.
FileRow(uniprot_id, version, m, mtime) ==
    [uniprot_id |-> uniprot_id, version |-> version, relpath |-> m.relpath,
     offset |-> m.offset, size |-> m.size, expanded_size |-> Len(m.data),
     modification_time |-> mtime]

MemberAt(relpath, offset) ==
    CHOOSE m \in Archives : m.relpath = relpath /\ m.offset = offset

AllFiles ==
    { FileRow(UX, 9, MemberAt("v9/a.tar", 0), 1000),
      FileRow(UY, 9, MemberAt("v9/a.tar", 1536), 1001),
      FileRow(UX, 10, MemberAt("v10/a.tar", 0), 2000),
      FileRow(UZ, 10, MemberAt("v10/a.tar", 1024), 2001) }

AllPdb == { << UX, PDB1 >>, << UY, PDB1 >>, << UZ, PDB2 >>, << UQ, PDB2 >> }

AllTaxonomy == { << UX, TAX1 >>, << UY, TAX2 >>, << UZ, TAX3 >>, << UQ, TAX2 >> }

(***************************************************************************)
(* State                                                                   *)
(***************************************************************************)

VARIABLES
    files,          \* the files table: a set of rows
    pdb,            \* the pdb table: a set of << uniprot_id, pdb_id >>
    taxonomy,       \* the taxonomy table: a set of << uniprot_id, taxonomy_id >>
    versions,       \* AlphaFoldFS.versions, the list prepare_sqlite stores
    decode_cache,   \* the lru_cache of _read_uniprot_contents, least recent first
    request,        \* the callback in progress: [action, pc, size, offset, flags]
    produced,       \* what _fake_filesystem returned to the logging wrapper
    result,         \* what the callback hands back to its caller
    first_read,     \* the first completed read of one chosen (path, size, offset)
    sql,            \* the one SQLReader of the daemon and the callbacks inside it
    readable,       \* the archives (relpath) that can be opened, read and decompressed
    db,             \* the index file and the indexer working on it
    mc,             \* a run of the mount helper and the machine it runs on
    conf,           \* the updatedb configuration file and the runs of the helper on it
    scan            \* the indexer's scan of one archive

vars == << files, pdb, taxonomy, versions, decode_cache, request, produced,
           result, first_read, sql, readable, db, mc, conf, scan >>

\* The state of the helper programs, which the daemon and the indexer leave alone.
host == << mc, conf, scan >>

\* What the callbacks taken one at a time leave alone.
aux == << sql, readable, db, host >>

(***************************************************************************)
(* SQLite                                                                  *)
(***************************************************************************)

\* substr(x, y, z) for z >= 0, as SQLite computes it (a negative y counts from
\* the right, and a start before the string shortens the result).
SqlSubstr(x, y, z) ==
    LET len == Len(x)
        neg == y < 0 /\ y + len < 0
        p1 == IF y < 0 THEN (IF neg THEN 0 ELSE y + len)
              ELSE IF y > 0 THEN y - 1 ELSE 0
        p2a == IF neg THEN z + (y + len)
               ELSE IF y = 0 /\ z > 0 THEN z - 1 ELSE z
        p2 == IF p2a < 0 THEN 0 ELSE p2a
        last == IF p1 + p2 > len THEN len ELSE p1 + p2
    IN  SubSeq(x, p1 + 1, last)

\* "version <= ?" with a str parameter against the int column: a parameter that
\* reads as an integer is compared as one, any other text sorts after every integer.
SqlLe(col, param) == IF IsDigits(param) THEN col <= StrToInt(param) ELSE TRUE

\* "version = ?" likewise.
SqlEq(col, param) == IsDigits(param) /\ col = StrToInt(param)

\* The rows of a result in a fixed order (SQL leaves the order open).
RECURSIVE SetToSeq(_)
SetToSeq(S) ==
    IF S = {} THEN << >>
    ELSE LET x == CHOOSE y \in S : TRUE
         IN  << x >> \o SetToSeq(S \ {x})

MaxOf(S) == CHOOSE x \in S : \A y \in S : y <= x

MinOf(S) == CHOOSE x \in S : \A y \in S : x <= y

\* A grouping that keeps the least version of each identifier.
MinVersionPerId(R) ==
    { [uniprot_id |-> u, version |-> MinOf({ r.version : r \in { q \in R : q.uniprot_id = u } })]
        : u \in { r.uniprot_id : r \in R } }

\* MAX(version) ... GROUP BY uniprot_id over the rows R of files.
MaxVersionPerId(R) ==
    { [uniprot_id |-> u, version |-> MaxOf({ r.version : r \in { q \in R : q.uniprot_id = u } })]
        : u \in { r.uniprot_id : r \in R } }

\* f'{record["uniprot_id"]}_v{record["version"]}.cif'
CifName(record) ==
    record.uniprot_id \o << "_", "v" >> \o IntToStr(record.version) \o DOTCIF

dirent_gen_from_result(rows) == SetToSeq({ CifName(r) : r \in rows })

dirent_gen_from_list(names) == SetToSeq(names)

get_valid_pdb_dirnames_l2(level_1, version) ==
    dirent_gen_from_list(
        { SqlSubstr(x[2], 0 - 2, 1) :
            x \in { y \in pdb :
                      /\ SqlSubstr(y[2], 0 - 3, 1) = StrUpper(level_1)
                      /\ \E f \in files : f.uniprot_id = y[1] /\ SqlLe(f.version, version) } })

\* A listing of the pdb identifiers of a bucket that does not join files.
PdbIdsOfBucket(pdb_substring, version) ==
    dirent_gen_from_list(
        { x[2] : x \in { y \in pdb : SqlSubstr(y[2], 0 - 3, 2) = StrUpper(pdb_substring) } })

get_pdb_from_pdb_substring(pdb_substring, version) ==
    dirent_gen_from_list(
        { x[2] :
            x \in { y \in pdb :
                      /\ SqlSubstr(y[2], 0 - 3, 2) = StrUpper(pdb_substring)
                      /\ \E f \in files : f.uniprot_id = y[1] /\ SqlLe(f.version, version) } })

get_uniprot_from_uniprot_substring(uniprot_substring, version) ==
    dirent_gen_from_result(
        MaxVersionPerId({ f \in files :
                            /\ SqlSubstr(f.uniprot_id, 0 - 3, 2) = uniprot_substring
                            /\ SqlLe(f.version, version) }))

get_taxonomy_from_taxonomy_substring(taxonomy_substring, version) ==
    dirent_gen_from_list(
        { x[2] :
            x \in { y \in taxonomy :
                      /\ SqlSubstr(y[2], 0 - 3, 2) = taxonomy_substring
                      /\ \E f \in files : f.uniprot_id = y[1] /\ SqlLe(f.version, version) } })

get_uniprot_from_taxonomy(taxonomy_id, version) ==
    dirent_gen_from_result(
        MaxVersionPerId({ f \in files :
                            /\ << f.uniprot_id, taxonomy_id >> \in taxonomy
                            /\ SqlLe(f.version, version) }))

get_uniprot_from_pdb(pdb_id, version) ==
    dirent_gen_from_result(
        MaxVersionPerId({ f \in files :
                            /\ << f.uniprot_id, StrUpper(pdb_id) >> \in pdb
                            /\ SqlLe(f.version, version) }))

(***************************************************************************)
(* LocationAwareStat and the results of a callback                         *)
(***************************************************************************)

S_IFDIR == 16384
S_IFREG == 32768
Perm555 == 365
Perm444 == 292

\* LocationAwareStat(**kw): kw is a record holding the keywords that are given.
LocationAwareStat(kw) ==
    LET has(k) == k \in DOMAIN kw
    IN  [st_mode  |-> IF has("st_mode") THEN kw.st_mode ELSE S_IFREG + Perm444,
         st_nlink |-> IF has("st_mode") /\ kw.st_mode = S_IFDIR + Perm555 THEN 2 ELSE 1,
         st_size  |-> IF has("st_size") THEN kw.st_size ELSE 0,
         st_mtime |-> IF has("modification_time") THEN kw.modification_time ELSE 0,
         st_ctime |-> IF has("modification_time") THEN kw.modification_time ELSE 0,
         tar_size |-> IF has("tar_size") THEN kw.tar_size ELSE None,
         relpath  |-> IF has("relpath") THEN kw.relpath ELSE NoneStr,
         offset   |-> IF has("offset") THEN kw.offset ELSE None,
         uniprot_id |-> IF has("uniprot_id") THEN kw.uniprot_id ELSE NoneId,
         version  |-> IF has("version") THEN kw.version ELSE None]

DirStat == LocationAwareStat([st_mode |-> S_IFDIR + Perm555])

\* What a callback can return: a stat, -2 (ENOENT), a generator of entries,
\* bytes, None (the function ends without a return), or an exception; "contents"
\* is the pending call _send_from_buffer(self._read_uniprot_contents(info), ...).
RStat(st)     == [kind |-> "stat", stat |-> st, items |-> << >>, data |-> << >>]
RNotFound     == [kind |-> "ENOENT", stat |-> DirStat, items |-> << >>, data |-> << >>]
RGen(items)   == [kind |-> "gen", stat |-> DirStat, items |-> items, data |-> << >>]
RBytes(data)  == [kind |-> "bytes", stat |-> DirStat, items |-> << >>, data |-> data]
RNone         == [kind |-> "None", stat |-> DirStat, items |-> << >>, data |-> << >>]
RRaise        == [kind |-> "raise", stat |-> DirStat, items |-> << >>, data |-> << >>]
REacces       == [kind |-> "EACCES", stat |-> DirStat, items |-> << >>, data |-> << >>]
RContents(info) == [kind |-> "contents", stat |-> info.stat, items |-> << >>,
                    data |-> << info.kind >>]

(***************************************************************************)
(* SQLReader.get_uniprot_info                                              *)
(***************************************************************************)

\* The version a terminal component pins: split('_')[1] without its 'v'.
PinnedVersion(name) == RemoveAll(SplitSecond(RemoveAll(name, DOTCIF), "_"), << "v" >>)

IsPinned(name) == Contains(RemoveAll(name, DOTCIF), "_")

\* The identifier of a terminal component: split('_')[0] after '.cif' is removed.
IdOf(name) == SplitFirst(RemoveAll(name, DOTCIF), "_")

\* The rows the SELECT of get_uniprot_info matches.
InfoRows(name, max_version) ==
    { f \in files :
        /\ f.uniprot_id = IdOf(name)
        /\ (IsPinned(name) /\ PinnedVersion(name) # << >>
              => SqlEq(f.version, PinnedVersion(name)))
        /\ (max_version # << >> => SqlLe(f.version, max_version)) }

\* "SELECT relpath, ..., max(version) AS version": one row always. With matching
\* rows the bare columns come from the row of the greatest version; with none,
\* every column is NULL, and "if not data" does not fire on a row of NULLs.
InfoSelect(name, max_version) ==
    LET R == InfoRows(name, max_version)
    IN  IF R = {}
        THEN [relpath |-> NoneStr, offset |-> None, size |-> None,
              expanded_size |-> None, modification_time |-> None, version |-> None]
        ELSE LET top == CHOOSE f \in R : \A g \in R : g.version <= f.version
             IN  [relpath |-> top.relpath, offset |-> top.offset, size |-> top.size,
                  expanded_size |-> top.expanded_size,
                  modification_time |-> top.modification_time, version |-> top.version]

\* The guard "version > max_version" compares two str.
NewerThanRoot(name, max_version) ==
    IsPinned(name) /\ StrGt(PinnedVersion(name), max_version)

\* functools.lru_cache(10000) on it repeats what the call returned before; the
\* index does not change while mounted, so the call is a function of its
\* arguments and the tables.
get_uniprot_info(name, max_version) ==
    IF NewerThanRoot(name, max_version) THEN RNotFound
    ELSE LET data == InfoSelect(name, max_version)
         IN  RStat(LocationAwareStat(
                 [st_size |-> data.expanded_size, tar_size |-> data.size,
                  relpath |-> data.relpath, offset |-> data.offset,
                  uniprot_id |-> IdOf(name),
                  modification_time |-> data.modification_time,
                  version |-> data.version]))

(***************************************************************************)
(* The archive reader                                                      *)
(***************************************************************************)

\* functools.lru_cache(50) on _read_uniprot_contents; the model's cache holds
\* DecodeCacheSize entries so that its runs fill it and evict from it.
DecodeCacheSize == 2

\* A reader that forgets the size: everything from offset to the end.
SendRestOfBuffer(buffer, size, offset) ==
    IF offset < Len(buffer) THEN SubSeq(buffer, offset + 1, Len(buffer)) ELSE << >>

_send_from_buffer(buffer, size, offset) ==
    LET slen == Len(buffer)
    IN  IF offset < slen
        THEN LET sz == IF offset + size > slen THEN slen - offset ELSE size
             IN  SubSeq(buffer, offset + 1, offset + sz)
        ELSE << >>

\* tf.seek(offset + 512); tf.read(tar_size); gzip.decompress: the member whose
\* payload starts there and has that size decompresses, anything else fails.
Payload(relpath, start, size) ==
    { m \in Archives : m.relpath = relpath /\ m.offset + 512 = start /\ m.size = size }

\* LocationAwareStat.__eq__ / __hash__: the cache key of a stat.
CacheKey(stat_info) == stat_info.uniprot_id

CacheHit(cache, stat_info) ==
    { i \in 1..Len(cache) : cache[i].key = CacheKey(stat_info) }

Without(seq, i) == SubSeq(seq, 1, i - 1) \o SubSeq(seq, i + 1, Len(seq))

\* Insert as most recently used, evicting the least recently used beyond maxsize.
CacheInsert(cache, entry) ==
    LET grown == Append(cache, entry)
    IN  IF Len(grown) > DecodeCacheSize THEN Tail(grown) ELSE grown

\* A reader that remembers a failed decode as an empty buffer.
ReadCachingFailures(cache, info) ==
    IF info.kind # "stat" THEN [ok |-> FALSE, buffer |-> << >>, cache |-> cache]
    ELSE LET hit == CacheHit(cache, info.stat)
         IN  IF hit # {}
             THEN LET i == CHOOSE j \in hit : TRUE
                  IN  [ok |-> TRUE, buffer |-> cache[i].buffer,
                       cache |-> Append(Without(cache, i), cache[i])]
             ELSE LET found == IF info.stat.relpath \notin readable THEN {}
                               ELSE Payload(info.stat.relpath, info.stat.offset + 512,
                                            info.stat.tar_size)
                      m == IF found = {} THEN [data |-> << >>]
                           ELSE CHOOSE n \in found : TRUE
                  IN  [ok |-> found # {}, buffer |-> m.data,
                       cache |-> CacheInsert(cache,
                           [key |-> CacheKey(info.stat), buffer |-> m.data])]

\* self._read_uniprot_contents(stat_info) through lru_cache, for the result info
\* of get_uniprot_info: [ok, buffer, cache], ok false when the call raises.
\*  - info is -2: the body reads stat_info.uniprot_id of an int and raises;
\*  - a hit returns the cached buffer and makes the entry most recent;
\*  - a miss opens relpath (None raises, as does an archive that cannot be
\*    read or decompressed), reads, decompresses and caches.
_read_uniprot_contents(cache, info) ==
    IF info.kind # "stat" THEN [ok |-> FALSE, buffer |-> << >>, cache |-> cache]
    ELSE LET hit == CacheHit(cache, info.stat)
         IN  IF hit # {}
             THEN LET i == CHOOSE j \in hit : TRUE
                  IN  [ok |-> TRUE, buffer |-> cache[i].buffer,
                       cache |-> Append(Without(cache, i), cache[i])]
             ELSE LET found == IF info.stat.relpath \notin readable THEN {}
                               ELSE Payload(info.stat.relpath, info.stat.offset + 512,
                                            info.stat.tar_size)
                  IN  IF found = {}
                      THEN [ok |-> FALSE, buffer |-> << >>, cache |-> cache]
                      ELSE LET m == CHOOSE n \in found : TRUE
                           IN  [ok |-> TRUE, buffer |-> m.data,
                                cache |-> CacheInsert(cache,
                                    [key |-> CacheKey(info.stat), buffer |-> m.data])]

(***************************************************************************)
(* AlphaFoldFS._fake_filesystem                                            *)
(***************************************************************************)

Alphanum ==
    << "A", "B", "C", "D", "E", "F", "G", "H", "I", "J", "K", "L", "M",
       "N", "O", "P", "Q", "R", "S", "T", "U", "V", "W", "X", "Y", "Z",
       "0", "1", "2", "3", "4", "5", "6", "7", "8", "9" >>

Numeric == << "1", "2", "3", "4", "5", "6", "7", "8", "9" >>

get_alphanum == [i \in 1..Len(Alphanum) |-> << Alphanum[i] >>]

get_numeric == [i \in 1..Len(Numeric) |-> << Numeric[i] >>]

\* The local README.md the daemon serves.
ReadmeData == << 82, 69 >>

\* pc[0] in self.versions + ['README.md']
InVersions(name) ==
    \/ \E i \in 1..Len(versions) : versions[i] = PyStr(name)
    \/ name = README

\* dirent_gen_from_list(self.versions + ['README.md'])
RootEntries == [i \in 1..Len(versions) |-> DirentName(versions[i])] \o << README >>

\* What a branch that has looked a file up returns: stat_info for getattr, the
\* pending contents call for read, nothing for readdir.
FileResult(action, info) ==
    IF action = "getattr" THEN info
    ELSE IF action = "read" THEN RContents(info)
    ELSE RNone

\* sql.get_uniprot_from_taxonomy / sql.get_uniprot_from_pdb, by axis.
MembersOf(axis, id, version) ==
    IF axis = TAXONOMY THEN get_uniprot_from_taxonomy(id, version)
    ELSE get_uniprot_from_pdb(id, version)

\* The dispatch below the version root: pc is the path without its first
\* component, version that component without its 'v'. Every branch that looks a
\* file up does so for the last component, and the result of that call is info.
Dispatch(pc, version, action, info) ==
    IF Len(pc) = 1 THEN
        IF action = "getattr" THEN RStat(DirStat)
        ELSE IF action = "readdir" THEN
            IF pc[1] \in {PDB, UNIPROT} THEN RGen(get_alphanum)
            ELSE IF pc[1] = TAXONOMY THEN RGen(get_numeric)
            ELSE RNotFound
        ELSE RNone
    ELSE IF Len(pc) = 2 THEN
        IF Len(pc[2]) = 1 THEN
            IF action = "getattr" THEN RStat(DirStat)
            ELSE IF action = "readdir" THEN
                IF pc[1] = PDB THEN RGen(get_valid_pdb_dirnames_l2(pc[2], version))
                ELSE IF pc[1] = UNIPROT THEN RGen(get_alphanum)
                ELSE IF pc[1] = TAXONOMY THEN RGen(get_numeric)
                ELSE RRaise
            ELSE RNone
        ELSE IF pc[1] = UNIPROT THEN FileResult(action, info)
        ELSE IF pc[1] \in {TAXONOMY, PDB} THEN
            IF action = "readdir" THEN RGen(MembersOf(pc[1], pc[2], version))
            ELSE IF action = "getattr" THEN RStat(DirStat)
            ELSE RNone
        ELSE RNone
    ELSE IF Len(pc) = 3 THEN
        IF Len(pc[2]) = 1 /\ action = "getattr" THEN RStat(DirStat)
        ELSE IF Len(pc[2]) = 1 /\ action = "readdir" /\ pc[1] = TAXONOMY THEN
            RGen(get_taxonomy_from_taxonomy_substring(pc[2] \o pc[3], version))
        ELSE IF Len(pc[2]) = 1 /\ action = "readdir" /\ pc[1] = UNIPROT THEN
            RGen(get_uniprot_from_uniprot_substring(pc[2] \o pc[3], version))
        ELSE IF Len(pc[2]) = 1 /\ action = "readdir" /\ pc[1] = PDB THEN
            RGen(get_pdb_from_pdb_substring(pc[2] \o pc[3], version))
        ELSE IF pc[1] = TAXONOMY THEN FileResult(action, info)
        ELSE RNone
    ELSE IF Len(pc) = 4 THEN
        IF pc[1] = UNIPROT /\ action \in {"getattr", "read"} THEN FileResult(action, info)
        ELSE IF action = "getattr" THEN RStat(DirStat)
        ELSE IF action = "readdir" /\ pc[1] \in {TAXONOMY, PDB} THEN
            RGen(MembersOf(pc[1], pc[4], version))
        ELSE RNone
    ELSE IF Len(pc) = 5 THEN FileResult(action, info)
    ELSE RNotFound

Below(pc, version, action) ==
    Dispatch(pc, version, action, get_uniprot_info(pc[Len(pc)], version))

\* _fake_filesystem(path, action, size, offset), pc being path.split("/")[1:].
\* A read of a file is returned as the pending "contents" call, which the Read
\* action completes against the decode cache.
_fake_filesystem(pc, action, size, offset) ==
    IF pc[1] = << >> /\ action = "getattr" THEN RStat(DirStat)
    ELSE IF pc[1] = << >> /\ action = "readdir" THEN RGen(RootEntries)
    ELSE IF ~InVersions(pc[1]) THEN RNotFound
    ELSE IF pc[1] = README /\ action = "getattr" THEN
        RStat(LocationAwareStat([st_size |-> Len(ReadmeData)]))
    ELSE IF pc[1] = README /\ action = "read" THEN
        RBytes(_send_from_buffer(ReadmeData, size, offset))
    ELSE IF Len(pc) = 1 /\ action = "getattr" THEN RStat(DirStat)
    ELSE IF Len(pc) = 1 /\ action = "readdir" THEN RGen(<< PDB, UNIPROT, TAXONOMY >>)
    ELSE Below(Tail(pc), RemoveAll(pc[1], << "v" >>), action)

(***************************************************************************)
(* The callbacks                                                           *)
(***************************************************************************)

Idle == [action |-> "idle", pc |-> << >>, size |-> 0, offset |-> 0, flags |-> 0]

\* _send_from_buffer(self._read_uniprot_contents(stat_info), size, offset), c
\* being the outcome of the inner call.
SendContents(c, size, offset) ==
    IF c.ok
    THEN [res |-> RBytes(_send_from_buffer(c.buffer, size, offset)), cache |-> c.cache]
    ELSE [res |-> RRaise, cache |-> c.cache]

\* The result r of _fake_filesystem for a read, its pending "contents" call
\* completed against the decode cache: [res, cache].
CompleteRead(cache, r, size, offset) ==
    IF r.kind # "contents" THEN [res |-> r, cache |-> cache]
    ELSE SendContents(
             _read_uniprot_contents(cache, [kind |-> r.data[1], stat |-> r.stat]),
             size, offset)

FakeFilesystemRead(cache, pc, size, offset) ==
    CompleteRead(cache, _fake_filesystem(pc, "read", size, offset), size, offset)

\* _fake_filesystem_logging: the f-string of logging.debug is built whatever the
\* log level, and list(result) in it runs a generator to its end; the same
\* generator object is then returned.
_fake_filesystem_logging(r) ==
    IF r.kind = "gen" THEN [r EXCEPT !.items = << >>] ELSE r

Getattr(pc) ==
    /\ request = Idle
    /\ request' = [action |-> "getattr", pc |-> pc, size |-> 0, offset |-> 0, flags |-> 0]
    /\ produced' = _fake_filesystem(pc, "getattr", None, None)
    /\ result' = _fake_filesystem_logging(produced')
    /\ UNCHANGED << files, pdb, taxonomy, versions, decode_cache, first_read, aux >>

Readdir(pc) ==
    /\ request = Idle
    /\ request' = [action |-> "readdir", pc |-> pc, size |-> 0, offset |-> 0, flags |-> 0]
    /\ produced' = _fake_filesystem(pc, "readdir", None, None)
    /\ result' = _fake_filesystem_logging(produced')
    /\ UNCHANGED << files, pdb, taxonomy, versions, decode_cache, first_read, aux >>

\* The outcome r of a read goes through the logging wrapper to the caller.
Deliver(r) ==
    /\ produced' = r.res
    /\ result' = _fake_filesystem_logging(r.res)
    /\ decode_cache' = r.cache

Read(pc, size, offset) ==
    /\ request = Idle
    /\ request' = [action |-> "read", pc |-> pc, size |-> size, offset |-> offset,
                   flags |-> 0]
    /\ Deliver(FakeFilesystemRead(decode_cache, pc, size, offset))
    /\ UNCHANGED << files, pdb, taxonomy, versions, aux >>

\* Bitwise and / or of two naturals.
RECURSIVE BitAnd(_, _)
BitAnd(a, b) ==
    IF a = 0 \/ b = 0 THEN 0
    ELSE (a % 2) * (b % 2) + 2 * BitAnd(a \div 2, b \div 2)

RECURSIVE BitOr(_, _)
BitOr(a, b) ==
    IF a = 0 THEN b
    ELSE IF b = 0 THEN a
    ELSE (IF a % 2 = 1 \/ b % 2 = 1 THEN 1 ELSE 0) + 2 * BitOr(a \div 2, b \div 2)

O_RDONLY == 0
O_WRONLY == 1
O_RDWR == 2

\* accmode = os.O_RDONLY | os.O_WRONLY | os.O_RDWR
accmode == BitOr(BitOr(O_RDONLY, O_WRONLY), O_RDWR)

\* An open that refuses only the write-only access mode.
OpenRefusingWriteOnly(pc, flags) ==
    IF BitAnd(flags, accmode) = O_WRONLY THEN REacces ELSE RNone

\* AlphaFoldFS.open: -errno.EACCES unless the access mode is O_RDONLY; the path
\* is logged and not looked at.
open(pc, flags) ==
    IF BitAnd(flags, accmode) # O_RDONLY THEN REacces ELSE RNone

Open(pc, flags) ==
    /\ request = Idle
    /\ request' = [action |-> "open", pc |-> pc, size |-> 0, offset |-> 0, flags |-> flags]
    /\ produced' = open(pc, flags)
    /\ result' = produced'
    /\ UNCHANGED << files, pdb, taxonomy, versions, decode_cache, first_read, aux >>

\* The callback returns to the kernel.
Return ==
    /\ request # Idle
    /\ request' = Idle
    /\ produced' = RNone
    /\ result' = RNone
    /\ UNCHANGED << files, pdb, taxonomy, versions, decode_cache, first_read, aux >>

(***************************************************************************)
(* Callbacks in several threads on the one SQLReader                        *)
(*                                                                         *)
(* AlphaFoldFS keeps one SQLReader (self.sqlite) and every callback enters  *)
(* it with "with self.sqlite as sql". __enter__ stores a new connection and *)
(* a new cursor in attributes of that one object, the queries use           *)
(* self.cursor, and __exit__ closes self.cursor and self.sql_connection.    *)
(* The daemon serves callbacks from several threads unless it is started    *)
(* with -s. sqlite3.connect is called without check_same_thread, so a       *)
(* connection or cursor used by a thread that did not create it raises      *)
(* ProgrammingError, as does one that is closed.                            *)
(***************************************************************************)

Threads == { 1, 2 }

\* Callbacks each thread serves in a run.
MaxCalls == 2

\* After prepare_sqlite: the main thread (0) has entered and left the reader,
\* the attributes still name its closed connection and cursor.
SqlPrepared ==
    [sql_connection |-> 1,
     cursor |-> 1,
     connections |-> << [creator |-> 0, open |-> FALSE] >>,
     cursors |-> << [connection |-> 1, open |-> FALSE, statement |-> << >>] >>,
     stage |-> [t \in Threads |-> "idle"],
     uniprot_id |-> [t \in Threads |-> << >>],
     returned |-> [t \in Threads |-> RNone],
     calls |-> [t \in Threads |-> 0]]

\* Thread t may operate on connection c: it created it and it is open.
ConnectionUsable(t, c) ==
    sql.connections[c].creator = t /\ sql.connections[c].open

\* Thread t may operate on cursor k.
CursorUsable(t, k) ==
    sql.cursors[k].open /\ ConnectionUsable(t, sql.cursors[k].connection)

\* The callback of thread t ends with an exception.
Raised(t) ==
    [sql EXCEPT !.stage[t] = "idle", !.returned[t] = RRaise]

\* getattr of /v10/uniprot/<id> starts in thread t:
\* self.sql_connection = sqlite3.connect(...)
EnterConnect(t, id) ==
    /\ sql.stage[t] = "idle"
    /\ sql.calls[t] < MaxCalls
    /\ sql' = [sql EXCEPT
                 !.connections = Append(@, [creator |-> t, open |-> TRUE]),
                 !.sql_connection = Len(sql.connections) + 1,
                 !.stage[t] = "connected",
                 !.uniprot_id[t] = id,
                 !.returned[t] = RNone,
                 !.calls[t] = @ + 1]
    /\ UNCHANGED << files, pdb, taxonomy, versions, decode_cache, request, produced,
                    result, first_read, readable, db, host >>

\* self.cursor = self.sql_connection.cursor(); an exception here leaves
\* __enter__, and __exit__ is not run.
EnterCursor(t) ==
    /\ sql.stage[t] = "connected"
    /\ sql' = IF ConnectionUsable(t, sql.sql_connection)
              THEN [sql EXCEPT
                      !.cursors = Append(@, [connection |-> sql.sql_connection,
                                             open |-> TRUE, statement |-> << >>]),
                      !.cursor = Len(sql.cursors) + 1,
                      !.stage[t] = "entered"]
              ELSE Raised(t)
    /\ UNCHANGED << files, pdb, taxonomy, versions, decode_cache, request, produced,
                    result, first_read, readable, db, host >>

\* self.cursor.execute(sql, args); an exception leaves the with block through
\* __exit__.
Execute(t) ==
    /\ sql.stage[t] = "entered"
    /\ sql' = IF CursorUsable(t, sql.cursor)
              THEN [sql EXCEPT !.cursors[sql.cursor].statement = sql.uniprot_id[t],
                               !.stage[t] = "executed"]
              ELSE [sql EXCEPT !.returned[t] = RRaise, !.stage[t] = "exiting"]
    /\ UNCHANGED << files, pdb, taxonomy, versions, decode_cache, request, produced,
                    result, first_read, readable, db, host >>

\* data = self.cursor.fetchone(), and the stat built from it: the row of the
\* statement that cursor executed last.
Fetch(t) ==
    /\ sql.stage[t] = "executed"
    /\ sql' = IF CursorUsable(t, sql.cursor)
              THEN [sql EXCEPT
                      !.returned[t] = get_uniprot_info(sql.cursors[sql.cursor].statement,
                                                       << "1", "0" >>),
                      !.stage[t] = "exiting"]
              ELSE [sql EXCEPT !.returned[t] = RRaise, !.stage[t] = "exiting"]
    /\ UNCHANGED << files, pdb, taxonomy, versions, decode_cache, request, produced,
                    result, first_read, readable, db, host >>

\* __exit__: self.cursor.close(); on another thread's cursor it raises and the
\* connection is not closed.
ExitCursor(t) ==
    /\ sql.stage[t] = "exiting"
    /\ sql' = IF sql.connections[sql.cursors[sql.cursor].connection].creator = t
              THEN [sql EXCEPT !.cursors[sql.cursor].open = FALSE,
                               !.stage[t] = "closing"]
              ELSE Raised(t)
    /\ UNCHANGED << files, pdb, taxonomy, versions, decode_cache, request, produced,
                    result, first_read, readable, db, host >>

\* __exit__: self.sql_connection.close(), and the callback returns.
ExitConnection(t) ==
    /\ sql.stage[t] = "closing"
    /\ sql' = IF sql.connections[sql.sql_connection].creator = t
              THEN [sql EXCEPT !.connections[sql.sql_connection].open = FALSE,
                               !.stage[t] = "idle"]
              ELSE Raised(t)
    /\ UNCHANGED << files, pdb, taxonomy, versions, decode_cache, request, produced,
                    result, first_read, readable, db, host >>

(***************************************************************************)
(* The indexer: create_or_update_sqlite (src/src/alphafoldfuse/db_builder.py) *)
(*                                                                         *)
(* The index file is a set of tables. The indexer works through one        *)
(* sqlite3 connection in the module's default transaction mode: an INSERT  *)
(* or DELETE opens a transaction when none is open, every other statement  *)
(* runs in the open transaction if there is one and is committed at once   *)
(* if there is none, and commit() ends the transaction. Another            *)
(* connection, the daemon's, reads the committed tables. An exception      *)
(* leaves the with block, which rolls the open transaction back.           *)
(***************************************************************************)

TableNames ==
    { "files", "files_tmp", "versions", "pdb", "pdb_tmp", "taxonomy",
      "taxonomy_tmp", "taxonomy_unique", "taxonomy_unique_tmp" }

NoTable == [exists |-> FALSE, rows |-> {}]

Table(rows) == [exists |-> TRUE, rows |-> rows]

\* An index file never written to.
EmptyIndexFile == [t \in TableNames |-> NoTable]

\* SELECT DISTINCT(version) FROM files / SELECT DISTINCT(taxonomy_id) FROM taxonomy
SelectDistinct(source, rows) ==
    IF source = "files" THEN { f.version : f \in rows } ELSE { r[2] : r \in rows }

\* The index file a completed rebuild of both parts leaves.
IndexFile(F, P, T) ==
    [t \in TableNames |->
        CASE t = "files" -> Table(F)
          [] t = "versions" -> Table(SelectDistinct("files", F))
          [] t = "pdb" -> Table(P)
          [] t = "taxonomy" -> Table(T)
          [] t = "taxonomy_unique" -> Table(SelectDistinct("taxonomy", T))
          [] OTHER -> NoTable]

Stmt(line, op, table, arg) == [line |-> line, op |-> op, table |-> table, arg |-> arg]

\* if args.rebuild_entries: lines 141-161 (a DROP INDEX IF EXISTS goes with the
\* CREATE INDEX that follows it)
EntriesStatements ==
    << Stmt(143, "drop", "files_tmp", ""),
       Stmt(144, "create", "files_tmp", ""),
       Stmt(147, "insertmany", "files_tmp", "files"),
       Stmt(150, "commit", "", ""),
       Stmt(153, "index", "files_tmp", ""),
       Stmt(154, "drop", "files", ""),
       Stmt(155, "rename", "files_tmp", "files"),
       Stmt(158, "create_if_not_exists", "versions", ""),
       Stmt(159, "delete", "versions", ""),
       Stmt(160, "insertselect", "versions", "files"),
       Stmt(161, "commit", "", "") >>

\* if args.rebuild_pdb: lines 165-213
CrossReferenceStatements ==
    << Stmt(166, "drop", "pdb_tmp", ""),
       Stmt(167, "create", "pdb_tmp", ""),
       Stmt(169, "insertmany", "pdb_tmp", "pdb"),
       Stmt(171, "commit", "", ""),
       Stmt(174, "drop", "taxonomy_tmp", ""),
       Stmt(175, "create", "taxonomy_tmp", ""),
       Stmt(177, "insertmany", "taxonomy_tmp", "taxonomy"),
       Stmt(179, "commit", "", ""),
       Stmt(184, "index", "pdb_tmp", ""),
       Stmt(187, "index", "pdb_tmp", ""),
       Stmt(191, "index", "pdb", ""),
       Stmt(194, "drop", "taxonomy_unique_tmp", ""),
       Stmt(195, "create", "taxonomy_unique_tmp", ""),
       Stmt(196, "insertselect", "taxonomy_unique_tmp", "taxonomy"),
       Stmt(199, "index", "taxonomy_unique_tmp", ""),
       Stmt(204, "index", "taxonomy_tmp", ""),
       Stmt(207, "drop", "pdb", ""),
       Stmt(208, "rename", "pdb_tmp", "pdb"),
       Stmt(209, "drop", "taxonomy", ""),
       Stmt(210, "rename", "taxonomy_tmp", "taxonomy"),
       Stmt(211, "drop", "taxonomy_unique", ""),
       Stmt(212, "rename", "taxonomy_unique_tmp", "taxonomy_unique"),
       Stmt(213, "commit", "", "") >>

\* The statements one run executes, the exit of the with block last.
create_or_update_sqlite(args) ==
    (IF args.rebuild_entries THEN EntriesStatements ELSE << >>)
    \o (IF args.rebuild_pdb THEN CrossReferenceStatements ELSE << >>)
    \o << Stmt(137, "exit", "", "") >>

\* How many runs of the indexer a behaviour has.
MaxRebuilds == 2

\* No indexer running on the index file `tables`.
NoRebuild(tables) ==
    [committed |-> tables, working |-> tables, in_transaction |-> FALSE,
     position |-> 0, args |-> [rebuild_entries |-> FALSE, rebuild_pdb |-> FALSE],
     input |-> [files |-> {}, pdb |-> {}, taxonomy |-> {}],
     previous |-> tables, outcome |-> "none", rebuilds |-> 0]

\* The statement the indexer is at.
Current == create_or_update_sqlite(db.args)[db.position]

At(op) == db.position > 0 /\ Current.op = op

\* The rows the daemon's queries find in a table of the committed index.
Visible(d, t) == d.committed[t].rows

\* The index file becomes d; the rest of the state is the daemon's.
Becomes(d) ==
    /\ db' = d
    /\ files' = Visible(d, "files")
    /\ pdb' = Visible(d, "pdb")
    /\ taxonomy' = Visible(d, "taxonomy")
    /\ UNCHANGED << versions, decode_cache, request, produced, result, first_read,
                    sql, readable, host >>

\* A statement that is no INSERT or DELETE has made the tables w.
Ddl(w) ==
    [db EXCEPT !.working = w,
               !.committed = IF db.in_transaction THEN @ ELSE w,
               !.position = @ + 1]

\* An INSERT or DELETE has made the tables w.
Dml(w) ==
    [db EXCEPT !.working = w, !.in_transaction = TRUE, !.position = @ + 1]

\* The statement raises sqlite3.OperationalError.
Abort ==
    [db EXCEPT !.working = db.committed, !.in_transaction = FALSE,
               !.position = 0, !.outcome = "failed"]

\* The options of a run: --no-entry and --no-pdb together are refused (246-247).
RebuildArgs ==
    { args \in [rebuild_entries : BOOLEAN, rebuild_pdb : BOOLEAN] :
        args.rebuild_entries \/ args.rebuild_pdb }

\* The rows the sources of a run yield: index_files(args) from the archives,
\* get_id_mappings from the mapping file.
RebuildInputs(args) ==
    { [files |-> F, pdb |-> P, taxonomy |-> T] :
        F \in IF args.rebuild_entries
              THEN { AllFiles, { f \in AllFiles : f.version = 9 } } ELSE { {} },
        P \in IF args.rebuild_pdb
              THEN { AllPdb, { << UX, PDB2 >> } } ELSE { {} },
        T \in IF args.rebuild_pdb
              THEN { AllTaxonomy, { << UX, TAX3 >>, << UY, TAX3 >> } } ELSE { {} } }

StartRebuild(args, input) ==
    /\ db.position = 0
    /\ db.rebuilds < MaxRebuilds
    /\ Becomes([db EXCEPT !.position = 1, !.args = args, !.input = input,
                          !.previous = db.committed, !.outcome = "none",
                          !.rebuilds = @ + 1])

\* DROP TABLE IF EXISTS t
DropTable ==
    /\ At("drop")
    /\ Becomes(Ddl([db.working EXCEPT ![Current.table] = NoTable]))

\* CREATE TABLE t / CREATE TABLE IF NOT EXISTS t
CreateTable ==
    /\ At("create") \/ At("create_if_not_exists")
    /\ Becomes(IF db.working[Current.table].exists
               THEN IF Current.op = "create" THEN Abort ELSE Ddl(db.working)
               ELSE Ddl([db.working EXCEPT ![Current.table] = Table({})]))

\* cursor.executemany("INSERT INTO t ...", rows)
InsertMany ==
    /\ At("insertmany")
    /\ Becomes(IF ~db.working[Current.table].exists THEN Abort
               ELSE Dml([db.working EXCEPT ![Current.table] =
                            Table(@.rows \cup db.input[Current.arg])]))

\* INSERT INTO t SELECT DISTINCT(column) FROM source
InsertSelect ==
    /\ At("insertselect")
    /\ Becomes(IF ~db.working[Current.table].exists \/ ~db.working[Current.arg].exists
               THEN Abort
               ELSE Dml([db.working EXCEPT ![Current.table] =
                            Table(@.rows \cup SelectDistinct(Current.arg,
                                                db.working[Current.arg].rows))]))

\* DELETE FROM t
DeleteFrom ==
    /\ At("delete")
    /\ Becomes(IF ~db.working[Current.table].exists THEN Abort
               ELSE Dml([db.working EXCEPT ![Current.table] = Table({})]))

\* DROP INDEX IF EXISTS i; CREATE INDEX i ON t(...)
CreateIndex ==
    /\ At("index")
    /\ Becomes(IF ~db.working[Current.table].exists THEN Abort ELSE Ddl(db.working))

\* ALTER TABLE t RENAME TO arg
RenameTable ==
    /\ At("rename")
    /\ Becomes(IF ~db.working[Current.table].exists \/ db.working[Current.arg].exists
               THEN Abort
               ELSE Ddl([db.working EXCEPT ![Current.arg] = db.working[Current.table],
                                           ![Current.table] = NoTable]))

\* sqlite_conn.commit()
Commit ==
    /\ At("commit")
    /\ Becomes([db EXCEPT !.committed = db.working, !.in_transaction = FALSE,
                          !.position = @ + 1])

\* The with block is left: the connection commits, and the run is over.
ExitRebuild ==
    /\ At("exit")
    /\ Becomes([db EXCEPT !.committed = db.working, !.in_transaction = FALSE,
                          !.position = 0, !.outcome = "done"])

(***************************************************************************)
(* The mount helper: MountControl.forceunmount                             *)
(* (src/src/alphafoldfuse/mountcontrol.py)                                 *)
(*                                                                         *)
(* The helper runs on a machine with a mount table and processes; a        *)
(* process has a working directory and a list of open files. A process     *)
(* that was sent terminate may exit at any later moment, one that is sent  *)
(* kill exits at once. psutil raises NoSuchProcess for a process that has  *)
(* exited, from cwd() and open_files() as from terminate() and kill().     *)
(***************************************************************************)

MNT == << "/", "m" >>
BENEATH == << "/", "m", "/", "x" >>
BENEATH2 == << "/", "m", "/", "y" >>
SIBLING == << "/", "m", "2" >>
ELSEWHERE == << "/", "o" >>

\* path is the mountpoint or lies beneath it: what keeps a mount busy.
Beneath(path, mountpoint) ==
    path = mountpoint \/ StartsWith(path, mountpoint \o << "/" >>)

\* The processes a machine may run, by pid.
Processes ==
    [p \in 1..4 |->
        CASE p = 1 -> [cwd |-> BENEATH, open_files |-> << >>]
          [] p = 2 -> [cwd |-> ELSEWHERE, open_files |-> << BENEATH, BENEATH2 >>]
          [] p = 3 -> [cwd |-> SIBLING, open_files |-> << >>]
          [] p = 4 -> [cwd |-> ELSEWHERE, open_files |-> << ELSEWHERE, MNT >>]]

\* No helper running.
NoHelper ==
    [stage |-> "idle", mountpoint |-> MNT, mounted |-> FALSE, running |-> {},
     using |-> << >>, remaining |-> << >>, next |-> 1, events |-> << >>,
     terminated |-> {}, exit |-> "none", raised |-> FALSE]

\* The process p of the machine uses the mount.
KeepsBusy(p) ==
    \/ Beneath(Processes[p].cwd, mc.mountpoint)
    \/ \E i \in 1..Len(Processes[p].open_files) :
           Beneath(Processes[p].open_files[i], mc.mountpoint)

\* What /usr/bin/umount can do: fail with "target is busy" while a running
\* process uses the mount, otherwise succeed or fail for another reason.
UmountOutcomes ==
    IF \E p \in mc.running : KeepsBusy(p) THEN { "target is busy" }
    ELSE { "", "not permitted" }

\* _umount(): None (here "None") when nothing is mounted or umount succeeds, the
\* error text otherwise; e is what /usr/bin/umount does when it is run.
_umount(e) ==
    IF ~mc.mounted THEN NoneStr
    ELSE IF e = "" THEN NoneStr ELSE e

\* The helper's run becomes m; nothing else changes.
HelperStep(m) ==
    /\ mc' = m
    /\ UNCHANGED << files, pdb, taxonomy, versions, decode_cache, request, produced,
                    result, first_read, sql, readable, db, conf, scan >>

\* mountcontrol forceunmount <mountpoint> is started on a machine.
StartForceUnmount(mounted, running) ==
    /\ mc.stage = "idle"
    /\ HelperStep([NoHelper EXCEPT !.stage = "umount", !.mounted = mounted,
                                   !.running = running])

\* The list `using` that the scan of _kill_users builds, for the pids ps in
\* ascending order: a process is appended once for its working directory, or
\* else once for each of its open files that starts with the mountpoint.
RECURSIVE MatchingFiles(_, _)
MatchingFiles(p, fs) ==
    IF fs = << >> THEN << >>
    ELSE (IF StartsWith(fs[1], mc.mountpoint) THEN << p >> ELSE << >>)
         \o MatchingFiles(p, Tail(fs))

RECURSIVE ScanFrom(_)
ScanFrom(p) ==
    IF p > Len(Processes) THEN << >>
    ELSE (IF p \notin mc.running THEN << >>
          ELSE IF StartsWith(Processes[p].cwd, mc.mountpoint) THEN << p >>
          ELSE MatchingFiles(p, Processes[p].open_files))
         \o ScanFrom(p + 1)

Event(kind, pid, err) == [kind |-> kind, pid |-> pid, err |-> err]

\* An exception leaves forceunmount: the interpreter prints it and exits with 1.
Uncaught ==
    [mc EXCEPT !.stage = "over", !.exit = "failure", !.raised = TRUE]

\* forceunmount, line 120: the first attempt.
FirstUmount(e) ==
    /\ mc.stage = "umount"
    /\ e \in UmountOutcomes
    /\ LET err == _umount(e)
           after == [mc EXCEPT !.events = Append(@, Event("umount", 0, err)),
                               !.mounted = mc.mounted /\ err # NoneStr]
       IN  HelperStep(IF err = "target is busy"
                      THEN [after EXCEPT !.stage = "scan"]
                      ELSE [after EXCEPT !.stage = "over", !.exit = "success"])

\* _kill_users, lines 70-83.
FindUsers ==
    /\ mc.stage = "scan"
    /\ LET using == ScanFrom(1)
       IN  HelperStep([mc EXCEPT !.using = using, !.next = 1,
                                 !.stage = IF using = << >> THEN "umount2"
                                           ELSE "terminate"])

\* _kill_users, lines 84-86, for one u of using: _summarize(u) in the f-string,
\* then u.terminate().
Terminate ==
    /\ mc.stage = "terminate"
    /\ LET u == mc.using[mc.next]
       IN  HelperStep(
               IF u \notin mc.running THEN Uncaught
               ELSE [mc EXCEPT !.events = Append(@, Event("terminate", u, "")),
                               !.terminated = @ \cup { u },
                               !.next = @ + 1,
                               !.stage = IF mc.next = Len(mc.using) THEN "wait"
                                         ELSE "terminate"])

\* Keep the entries of seq that are in S.
RECURSIVE FilterSeq(_, _)
FilterSeq(seq, S) ==
    IF seq = << >> THEN << >>
    ELSE (IF seq[1] \in S THEN << seq[1] >> ELSE << >>) \o FilterSeq(Tail(seq), S)

\* _kill_users, lines 87-91: sleep, filter on is_running(), sleep again.
Wait ==
    /\ mc.stage = "wait"
    /\ LET remaining == FilterSeq(mc.using, mc.running)
       IN  HelperStep([mc EXCEPT !.remaining = remaining, !.next = 1,
                                 !.stage = IF remaining = << >> THEN "umount2"
                                           ELSE "kill"])

\* _kill_users, lines 92-93, for one r of remaining.
Kill ==
    /\ mc.stage = "kill"
    /\ LET r == mc.remaining[mc.next]
       IN  HelperStep(
               IF r \notin mc.running THEN Uncaught
               ELSE [mc EXCEPT !.events = Append(@, Event("kill", r, "")),
                               !.running = @ \ { r },
                               !.next = @ + 1,
                               !.stage = IF mc.next = Len(mc.remaining) THEN "umount2"
                                         ELSE "kill"])

\* forceunmount, lines 124-127: the second attempt.
SecondUmount(e) ==
    /\ mc.stage = "umount2"
    /\ e \in UmountOutcomes
    /\ LET err == _umount(e)
       IN  HelperStep([mc EXCEPT !.events = Append(@, Event("umount", 0, err)),
                                 !.mounted = mc.mounted /\ err # NoneStr,
                                 !.stage = "over",
                                 !.exit = IF err = NoneStr THEN "success"
                                          ELSE "failure"])

\* A process that was sent terminate exits.
ProcessExits(p) ==
    /\ mc.stage # "over"
    /\ p \in mc.running
    /\ p \in mc.terminated
    /\ HelperStep([mc EXCEPT !.running = @ \ { p }])

(***************************************************************************)
(* The locate-db exclusion helper (src/update_updatedb.py)                 *)
(*                                                                         *)
(* The configuration file is a sequence of lines, each a string that ends  *)
(* with a newline. fileinput with inplace=True hands the lines over one by *)
(* one and what the loop prints becomes the file.                          *)
(***************************************************************************)

NL == "\n"
QUOTE == "\""
PRUNEPATHS == << "P", "R", "U", "N", "E", "P", "A", "T", "H", "S" >>

\* How many paths a PRUNEPATHS value has at first, and how many runs there are.
MaxPaths == 2
MaxRuns == 2

\* line.strip('\n'): newlines off both ends.
RECURSIVE StripNewlines(_)
StripNewlines(s) ==
    IF s = << >> THEN s
    ELSE IF s[1] = NL THEN StripNewlines(Tail(s))
    ELSE IF s[Len(s)] = NL THEN StripNewlines(SubSeq(s, 1, Len(s) - 1))
    ELSE s

\* pat in s, for strings
IsSubstring(pat, s) ==
    \E i \in 1..(Len(s) - Len(pat) + 1) : SubSeq(s, i, i + Len(pat) - 1) = pat

\* s.split(sep, maxsplit=n)
RECURSIVE SplitMax(_, _, _)
SplitMax(s, sep, n) ==
    LET i == FindChar(s, sep, 1)
    IN  IF n = 0 \/ i > Len(s) THEN << s >>
        ELSE << SubSeq(s, 1, i - 1) >> \o SplitMax(SubSeq(s, i + 1, Len(s)), sep, n - 1)

\* print(s) into the file
PrintLine(s) == s \o << NL >>

\* The body of the loop, lines 26-43, for one line: the line that is printed.
Rewritten(line, mountpoint) ==
    LET sline == StripNewlines(line)
        parts == SplitMax(sline, QUOTE, 2)
    IN  IF StartsWith(sline, PRUNEPATHS)
               /\ ~IsSubstring(mountpoint, sline)
               /\ Len(parts) = 3
        THEN PrintLine(parts[1] \o << QUOTE >> \o parts[2] \o << " " >> \o mountpoint
                       \o << QUOTE >> \o parts[3])
        ELSE PrintLine(sline)

\* No configuration file chosen yet.
NoConfig == [lines |-> << >>, mountpoint |-> << >>, history |-> << >>]

\* The paths a PRUNEPATHS value is made of, and the values.
PrunePaths == { << "/", "t" >>, SIBLING, MNT }

RECURSIVE Joined(_)
Joined(paths) ==
    IF paths = << >> THEN << >>
    ELSE IF Len(paths) = 1 THEN paths[1]
    ELSE paths[1] \o << " " >> \o Joined(Tail(paths))

PruneValues ==
    { Joined(ps) : ps \in { qs \in UNION { [1..n -> PrunePaths] : n \in 0..MaxPaths } :
                              \A i, j \in DOMAIN qs : qs[i] = qs[j] => i = j } }

PruneLine(value) == PRUNEPATHS \o << "=", QUOTE >> \o value \o << QUOTE, NL >>

\* The other lines of a file: a comment that names the mountpoint, a setting.
CommentLine == << "#", " " >> \o MNT \o << NL >>
SettingLine == << "N", "=", QUOTE, "x", QUOTE, NL >>

ConfigFiles ==
    { before \o << PruneLine(v) >> \o after :
        before \in { << >>, << CommentLine >> },
        after \in { << >>, << SettingLine >> },
        v \in PruneValues }

\* The helper's run leaves conf as c; nothing else changes.
ConfigStep(c) ==
    /\ conf' = c
    /\ UNCHANGED << files, pdb, taxonomy, versions, decode_cache, request, produced,
                    result, first_read, sql, readable, db, mc, scan >>

\* The system has the configuration file `lines`; the helper is to be run with
\* `mountpoint`.
InstallConfig(lines, mountpoint) ==
    /\ conf = NoConfig
    /\ ConfigStep([lines |-> lines, mountpoint |-> mountpoint, history |-> << lines >>])

\* One run of update_updatedb.py <mountpoint> on the file, which exists (line
\* 19) and has a PRUNEPATHS line (line 44).
UpdateUpdatedb ==
    /\ conf # NoConfig
    /\ Len(conf.history) <= MaxRuns
    /\ LET lines == [i \in 1..Len(conf.lines) |-> Rewritten(conf.lines[i], conf.mountpoint)]
       IN  ConfigStep([conf EXCEPT !.lines = lines, !.history = Append(@, lines)])

(***************************************************************************)
(* The indexer's scan of one archive: get_files_from_tar                   *)
(* (src/src/alphafoldfuse/db_builder.py)                                   *)
(*                                                                         *)
(* A tar archive is a sequence of members, each a 512-byte header followed *)
(* by its data padded with zeros to a multiple of 512 bytes; tar --list    *)
(* --verbose prints one line per member with its size and name.            *)
(***************************************************************************)

\* How many members an archive has.
MaxMembers == 3

BlockSize == 512

\* A rounding that leaves its argument as it is.
NoRounding(number) == number

\* round_to_512(number)
round_to_512(number) ==
    IF number = 0 THEN number
    ELSE LET remainder == number % 512
         IN  IF remainder = 0 THEN number ELSE number + 512 - remainder

\* The member names of the archives: a structure and a file that is none.
CIFNAME ==
    << "A", "F", "-", "P", "A", "B", "1", "-", "F", "1", "-", "m", "o", "d", "e", "l",
       "_", "v", "9", ".", "c", "i", "f", ".", "g", "z" >>
JSONNAME ==
    << "A", "F", "-", "P", "A", "B", "1", "-", "F", "1", "-", "p", "a", "e",
       "_", "v", "9", ".", "j", "s", "o", "n" >>
CIFGZ == << ".", "c", "i", "f", ".", "g", "z" >>
F1MODEL == << "F", "1", "-", "m", "o", "d", "e", "l" >>

EndsWith(s, pat) ==
    /\ Len(s) >= Len(pat)
    /\ SubSeq(s, Len(s) - Len(pat) + 1, Len(s)) = pat

\* The sizes the members have, in bytes.
MemberSizes == { 0, 1, BlockSize, BlockSize + 1 }

TarArchives ==
    UNION { [1..n -> [name : { CIFNAME, JSONNAME }, size : MemberSizes]] :
              n \in 1..MaxMembers }

\* Where the header of member k of a tar archive is.
RECURSIVE HeaderPosition(_, _)
HeaderPosition(archive, k) ==
    IF k = 1 THEN 0
    ELSE HeaderPosition(archive, k - 1) + BlockSize
         + ((archive[k - 1].size + BlockSize - 1) \div BlockSize) * BlockSize

\* No archive being scanned.
NoScan == [archive |-> << >>, line |-> 0, offset |-> 0, files |-> << >>]

ScanStep(sc) ==
    /\ scan' = sc
    /\ UNCHANGED << files, pdb, taxonomy, versions, decode_cache, request, produced,
                    result, first_read, sql, readable, db, mc, conf >>

\* Lines 36-39: the archive is opened and listed, the offset is 0.
OpenTar(archive) ==
    /\ scan = NoScan
    /\ ScanStep([archive |-> archive, line |-> 1, offset |-> 0, files |-> << >>])

\* The row of lines 58 and 61-62 for a member at offset (without its expanded
\* size and its time).
ScannedRow(member, offset) ==
    LET ns == SplitMax(member.name, "-", Len(member.name))
        version == SplitFirst(SplitSecond(ns[4], "_"), ".")
    IN  [version |-> RemoveAll(version, << "v" >>), uniprot_id |-> ns[2],
         offset |-> offset, size |-> member.size]

\* Lines 40-64 for one line of the listing.
ListMember ==
    /\ scan.line >= 1
    /\ scan.line <= Len(scan.archive)
    /\ LET member == scan.archive[scan.line]
           size == member.size
       IN  ScanStep([scan EXCEPT
               !.files = IF EndsWith(member.name, CIFGZ) /\ IsSubstring(F1MODEL, member.name)
                         THEN Append(@, ScannedRow(member, scan.offset))
                         ELSE @,
               !.offset = round_to_512(scan.offset + size + 512),
               !.line = @ + 1])

(***************************************************************************)
(* The requests the runs issue                                             *)
(***************************************************************************)

V9 == << "v", "9" >>
V10 == << "v", "1", "0" >>
BOGUS == << "b", "o", "g", "u", "s" >>
PDB1LOWER == << "2", "d", "o", "g" >>

Pinned(u, v) == CifName([uniprot_id |-> u, version |-> v])

\* Terminal components: bare identifiers and pinned names, present and absent.
FileNames ==
    { UX, UY, UZ, UQ,
      Pinned(UX, 9), Pinned(UX, 10), Pinned(UX, 3), Pinned(UY, 9), Pinned(UY, 10),
      Pinned(UZ, 10) }

\* Identifier directories per axis, and the bucket pairs that lead to them.
AxisIds(axis) ==
    IF axis = PDB THEN { PDB1, PDB2, PDB1LOWER }
    ELSE IF axis = TAXONOMY THEN { TAX1, TAX2, TAX3 }
    ELSE {}

Buckets(axis) ==
    IF axis = PDB THEN { << "D", "O" >>, << "A", "B" >>, << "d", "o" >> }
    ELSE IF axis = TAXONOMY THEN { << "6", "0" >>, << "5", "6" >>, << "1", "0" >> }
    ELSE IF axis = UNIPROT THEN { << "A", "B" >>, << "C", "4" >>, << "Z", "Z" >> }
    ELSE { << "A", "B" >> }

Axes == { UNIPROT, PDB, TAXONOMY, BOGUS }

\* The two bucket components that precede an identifier of three or more characters.
BucketOf(id) == << << id[Len(id) - 2] >>, << id[Len(id) - 1] >> >>

LongIds(axis) == { id \in AxisIds(axis) : Len(id) >= 3 }

\* Paths below a version root, without the root.
Tails ==
    { << >> }
    \cup { << a >> : a \in Axes }
    \cup UNION { UNION { { << a, << b[1] >> >>, << a, << b[1] >>, << b[2] >> >> } :
                           b \in Buckets(a) } : a \in Axes }
    \cup { << UNIPROT, f >> : f \in FileNames }
    \cup UNION { { << a, id >> : id \in AxisIds(a) } : a \in { PDB, TAXONOMY } }
    \cup UNION { { << a, id, f >> : id \in AxisIds(a), f \in FileNames } :
                   a \in { PDB, TAXONOMY } }
    \cup UNION { { << UNIPROT, << b[1] >>, << b[2] >>, f >> : f \in FileNames } :
                   b \in Buckets(UNIPROT) }
    \cup UNION { { << a >> \o BucketOf(id) \o << id >> : id \in LongIds(a) } :
                   a \in { PDB, TAXONOMY } }
    \cup UNION { { << a >> \o BucketOf(id) \o << id, f >> :
                     id \in LongIds(a), f \in FileNames } : a \in { PDB, TAXONOMY } }
    \cup { << PDB, << "D" >>, << "O" >>, PDB1, UX, UX >> }

\* First components: version tags, a bare number, an unknown tag, README.md.
Roots == { V9, V10 }

Paths ==
    { << << >> >>, << README >>, << README, UNIPROT >>, << << "9" >> >>,
      << << "v", "3" >> >>, << << "v", "3" >>, UNIPROT, UX >> }
    \cup { << r >> \o t : r \in Roots, t \in Tails }

\* The terminal components read is tried with where the path form does not
\* change the lookup.
FewNames == { UX, UQ, Pinned(UX, 10) }

FileTails ==
    { << UNIPROT, f >> : f \in FileNames }
    \cup { << TAXONOMY, id, f >> : id \in AxisIds(TAXONOMY), f \in FewNames }
    \cup UNION { { << UNIPROT, << b[1] >>, << b[2] >>, f >> : f \in FewNames } :
                   b \in Buckets(UNIPROT) }
    \cup UNION { { << a >> \o BucketOf(id) \o << id, f >> :
                     id \in LongIds(a), f \in FewNames } : a \in { PDB, TAXONOMY } }

\* The paths read is tried on: the file paths, and some that are no file.
ReadPaths ==
    { << README >>, << V9 >>, << V9, UNIPROT >>, << V9, PDB, PDB1, UX >>,
      << << "v", "3" >>, UNIPROT, UX >> }
    \cup { << r >> \o t : r \in Roots, t \in FileTails }

\* The reads whose first result is remembered.
ProbePaths ==
    { << r, UNIPROT, u >> : r \in Roots, u \in { UX, UY, UZ } }

(***************************************************************************)
(* Specifications                                                          *)
(***************************************************************************)

\* The indexes the runs start from: any part of the archives indexed.
FileSets == SUBSET AllFiles

\* The versions table of an index: db_builder.py fills it with the integers of
\* files.version; get_versions returns whatever it holds, so an index whose
\* versions table holds the text tags 'v<N>' gives a list of str.
VersionLists(F) ==
    { SetToSeq({ PyInt(f.version) : f \in F }),
      SetToSeq({ PyStr(<< "v" >> \o IntToStr(f.version)) : f \in F }) }

NoRead == [request |-> Idle, result |-> RNone]

\* The state after construction and prepare_sqlite.
Init ==
    /\ files \in FileSets
    /\ pdb = AllPdb
    /\ taxonomy = AllTaxonomy
    /\ versions \in VersionLists(files)
    /\ decode_cache = << >>
    /\ request = Idle
    /\ produced = RNone
    /\ result = RNone
    /\ first_read = NoRead
    /\ sql = SqlPrepared
    /\ readable = { m.relpath : m \in Archives }
    /\ db = NoRebuild(IndexFile(files, pdb, taxonomy))
    /\ mc = NoHelper
    /\ conf = NoConfig
    /\ scan = NoScan

\* getattr and readdir on any index.
Next ==
    \/ \E pc \in Paths : Getattr(pc)
    \/ \E pc \in Paths : Readdir(pc)
    \/ Return

Spec == Init /\ [][Next]_vars

\* read and getattr of the file paths, every archive indexed.
InitRead == Init /\ files = AllFiles

ReadUntracked(pc, size, offset) == Read(pc, size, offset) /\ UNCHANGED first_read

NextRead ==
    \/ \E pc \in ReadPaths : Getattr(pc)
    \/ \E pc \in ReadPaths, size \in 0..MaxSize, offset \in 0..MaxOffset :
         ReadUntracked(pc, size, offset)
    \/ Return

SpecRead == InitRead /\ [][NextRead]_vars

\* Reads of whole files, the first result of one of them remembered.
ReadTracked(pc, size, offset) ==
    /\ Read(pc, size, offset)
    /\ \/ UNCHANGED first_read
       \/ /\ first_read = NoRead
          /\ first_read' = [request |-> request', result |-> result']

NextIdem ==
    \/ \E pc \in ProbePaths : ReadTracked(pc, MaxSize, 0)
    \/ Return

SpecIdem == InitRead /\ [][NextIdem]_vars

\* An archive stops being readable (unmounted, truncated, corrupted), or is
\* readable again; fs_open, tf.read or gzip.decompress raise while it is not.
ArchiveFails(a) ==
    /\ a \in readable
    /\ readable' = readable \ { a }
    /\ UNCHANGED << files, pdb, taxonomy, versions, decode_cache, request, produced,
                    result, first_read, sql, db, host >>

ArchiveRestored(a) ==
    /\ a \notin readable
    /\ a \in { m.relpath : m \in Archives }
    /\ readable' = readable \cup { a }
    /\ UNCHANGED << files, pdb, taxonomy, versions, decode_cache, request, produced,
                    result, first_read, sql, db, host >>

NextFail ==
    \/ \E pc \in ProbePaths : ReadTracked(pc, MaxSize, 0)
    \/ \E a \in { m.relpath : m \in Archives } : ArchiveFails(a)
    \/ \E a \in { m.relpath : m \in Archives } : ArchiveRestored(a)
    \/ Return

SpecFail == InitRead /\ [][NextFail]_vars

\* The indexer starts from an index file never written to, or from a complete one.
InitBuild ==
    \/ InitRead
    \/ /\ files = {}
       /\ pdb = {}
       /\ taxonomy = {}
       /\ versions = << >>
       /\ decode_cache = << >>
       /\ request = Idle
       /\ produced = RNone
       /\ result = RNone
       /\ first_read = NoRead
       /\ sql = SqlPrepared
       /\ readable = { m.relpath : m \in Archives }
       /\ db = NoRebuild(EmptyIndexFile)
       /\ mc = NoHelper
       /\ conf = NoConfig
       /\ scan = NoScan

NextBuild ==
    \/ \E args \in RebuildArgs : \E input \in RebuildInputs(args) :
           StartRebuild(args, input)
    \/ DropTable
    \/ CreateTable
    \/ InsertMany
    \/ InsertSelect
    \/ DeleteFrom
    \/ CreateIndex
    \/ RenameTable
    \/ Commit
    \/ ExitRebuild

SpecBuild == InitBuild /\ [][NextBuild]_vars

\* The machines forceunmount is run on: mounted or not, any of the processes
\* running.
NextUnmount ==
    \/ \E mounted \in BOOLEAN, running \in SUBSET (DOMAIN Processes) :
           StartForceUnmount(mounted, running)
    \/ \E e \in { "", "not permitted", "target is busy" } : FirstUmount(e)
    \/ FindUsers
    \/ Terminate
    \/ Wait
    \/ Kill
    \/ \E e \in { "", "not permitted", "target is busy" } : SecondUmount(e)
    \/ \E p \in DOMAIN Processes : ProcessExits(p)

SpecUnmount == InitRead /\ [][NextUnmount]_vars

NextConfig ==
    \/ \E lines \in ConfigFiles : InstallConfig(lines, MNT)
    \/ UpdateUpdatedb

SpecConfig == InitRead /\ [][NextConfig]_vars

NextScan ==
    \/ \E archive \in TarArchives : OpenTar(archive)
    \/ ListMember

SpecScan == InitRead /\ [][NextScan]_vars

\* The flags open is tried with: every value of the two access-mode bits, alone
\* and with O_CREAT (64), O_TRUNC (512), O_APPEND (1024), O_LARGEFILE (32768).
OpenFlags == { a + o : a \in 0..3, o \in { 0, 64, 512, 576, 1024, 32768 } }

\* Paths open is tried on: files, directories, and paths that name nothing.
OpenPaths ==
    { << << >> >>, << README >>, << V9 >>, << V9, UNIPROT, UX >>,
      << V10, UNIPROT, Pinned(UX, 10) >>, << BOGUS >> }

NextOpen ==
    \/ \E pc \in OpenPaths, flags \in OpenFlags : Open(pc, flags)
    \/ Return

SpecOpen == InitRead /\ [][NextOpen]_vars

\* The identifiers the concurrent callbacks look up.
LookedUp == { UX, UY, UZ }

NextThreads ==
    \/ \E t \in Threads, id \in LookedUp : EnterConnect(t, id)
    \/ \E t \in Threads : EnterCursor(t)
    \/ \E t \in Threads : Execute(t)
    \/ \E t \in Threads : Fetch(t)
    \/ \E t \in Threads : ExitCursor(t)
    \/ \E t \in Threads : ExitConnection(t)

SpecThreads == InitRead /\ [][NextThreads]_vars

(***************************************************************************)
(* What the properties below speak of                                      *)
(***************************************************************************)

\* A version tag 'v<digits>' and the integer it names.
IsTag(tag) == Len(tag) >= 2 /\ tag[1] = "v" /\ IsDigits(Tail(tag))

TagVersion(tag) == StrToInt(Tail(tag))

Last(pc) == pc[Len(pc)]

\* p + "/" + e
Child(pc, e) == IF pc = << << >> >> THEN << e >> ELSE Append(pc, e)

Range(seq) == { seq[i] : i \in 1..Len(seq) }

\* The paths that denote a file below a version root the index names:
\* /<v>/uniprot/<ID>, /<v>/taxonomy/<TID>/<ID>, /<v>/uniprot/<A>/<B>/<ID> and
\* /<v>/<pdb or taxonomy>/<A>/<B>/<XID>/<ID>.
IsFilePath(pc) ==
    /\ Len(pc) >= 3
    /\ IsTag(pc[1])
    /\ InVersions(pc[1])
    /\ \/ Len(pc) = 3 /\ pc[2] = UNIPROT /\ Len(pc[3]) > 1
       \/ Len(pc) = 4 /\ pc[2] = TAXONOMY /\ Len(pc[3]) > 1
       \/ Len(pc) = 5 /\ pc[2] = UNIPROT /\ Len(pc[3]) = 1 /\ Len(pc[4]) = 1
       \/ Len(pc) = 6 /\ pc[2] \in { PDB, TAXONOMY } /\ Len(pc[3]) = 1 /\ Len(pc[4]) = 1

\* The rows of files with the identifier of the terminal component and a
\* version no greater than the version root's, compared as integers.
RowsUnderRoot(pc) ==
    { f \in files : f.uniprot_id = IdOf(Last(pc)) /\ f.version <= TagVersion(pc[1]) }

\* Of those, the rows a pinned or unpinned terminal component admits.
Eligible(pc) ==
    { f \in RowsUnderRoot(pc) :
        IsPinned(Last(pc)) =>
            /\ IsDigits(PinnedVersion(Last(pc)))
            /\ f.version = StrToInt(PinnedVersion(Last(pc))) }

\* The row a file path resolves to: the eligible row of the greatest version.
Resolved(pc) == CHOOSE f \in Eligible(pc) : \A g \in Eligible(pc) : g.version <= f.version

\* A stat carries the attributes of row f, all of them.
StatOfRow(st, f) ==
    /\ st.uniprot_id = f.uniprot_id
    /\ st.version = f.version
    /\ st.relpath = f.relpath
    /\ st.offset = f.offset
    /\ st.tar_size = f.size
    /\ st.st_size = f.expanded_size
    /\ st.st_mtime = f.modification_time

\* B[offset : min(offset + size, Len(B))]
Slice(B, size, offset) ==
    LET stop == IF offset + size < Len(B) THEN offset + size ELSE Len(B)
    IN  IF stop > offset THEN [i \in 1..(stop - offset) |-> B[offset + i]] ELSE << >>

\* The decompressed bytes of the archive member a row points at.
BytesOfRow(f) == MemberAt(f.relpath, f.offset).data

(***************************************************************************)
(* Properties                                                              *)
(***************************************************************************)

\* C1: for every path on which readdir yields entries, and for every entry e it
\* yields, getattr of the path extended by e returns a Stat (not NotFound, not
\* nothing).
C1_ListedEntryHasStat ==
    (request.action = "readdir" /\ produced.kind = "gen") =>
        \A i \in 1..Len(produced.items) :
            _fake_filesystem(Child(request.pc, produced.items[i]),
                             "getattr", None, None).kind = "stat"

\* C2: what the readdir callback hands back after the logging wrapper still
\* yields every entry the resolver produced; readdir("/") yields the tag of every
\* version of the versions table and README.md, and readdir("/<v>") yields
\* exactly uniprot, pdb and taxonomy.
C2_CallbackYieldsEntries ==
    request.action = "readdir" =>
        /\ produced.kind = "gen" =>
               result.kind = "gen" /\ result.items = produced.items
        /\ request.pc = << << >> >> =>
               Range(result.items) = Range(RootEntries)
        /\ (Len(request.pc) = 1 /\ IsTag(request.pc[1]) /\ InVersions(request.pc[1])) =>
               Range(result.items) = { UNIPROT, PDB, TAXONOMY }

\* C3: whatever reads came before, the bytes a read of a file path returns are
\* bytes of the archive member of the (uniprot_id, version) row the path
\* resolves to: the decode cache never serves a buffer decoded for another row.
C3_ReadServesResolvedRow ==
    (request.action = "read" /\ IsFilePath(request.pc) /\ result.kind = "bytes") =>
        /\ Eligible(request.pc) # {}
        /\ result.data = Slice(BytesOfRow(Resolved(request.pc)),
                               request.size, request.offset)

\* C4: reads are idempotent: a read(p, s, o) that returned bytes, issued again
\* after any other reads, cache fills and evictions, returns the same bytes.
C4_ReadsIdempotent ==
    (/\ request.action = "read"
     /\ first_read # NoRead
     /\ first_read.result.kind = "bytes"
     /\ request = first_read.request) =>
        result = first_read.result

\* C5: every file stat getattr returns for a path under /<v>/ is built from a
\* files row of version <= v, of version V when the terminal component carries
\* _v<V>, and never from a row outside the filter or from no row.
C5_StatBuiltFromEligibleRow ==
    (request.action = "getattr" /\ IsFilePath(request.pc) /\ produced.kind = "stat") =>
        \E f \in Eligible(request.pc) : StatOfRow(produced.stat, f)

\* C6: a terminal component that pins _v<V> under /<v>/ gets the row of exactly
\* version V when files holds (uniprot_id, V) and V <= v as integers, and
\* NotFound in every other case.
C6_PinnedVersionExactOrNotFound ==
    (request.action = "getattr" /\ IsFilePath(request.pc) /\ IsPinned(Last(request.pc))) =>
        IF Eligible(request.pc) # {}
        THEN produced.kind = "stat" /\ StatOfRow(produced.stat, Resolved(request.pc))
        ELSE produced = RNotFound

\* C7: getattr of a file path whose identifier has no files row of version <= v
\* returns NotFound, not a Stat.
C7_NoRowIsNotFound ==
    (request.action = "getattr" /\ IsFilePath(request.pc)
         /\ RowsUnderRoot(request.pc) = {}) =>
        result = RNotFound

\* C8: read of a file path whose lookup finds nothing (identifier absent, pinned
\* version absent, pinned version newer than the version root) returns NotFound:
\* it neither raises nor returns bytes.
C8_ReadOfMissingIsNotFound ==
    (request.action = "read" /\ IsFilePath(request.pc) /\ Eligible(request.pc) = {}) =>
        result = RNotFound

\* C9: when files holds several rows for one uniprot_id, getattr and read of an
\* unpinned file path use the row of the greatest version <= v, and every
\* attribute returned comes from that one row.
C9_GreatestVersionWins ==
    (/\ IsFilePath(request.pc)
     /\ ~IsPinned(Last(request.pc))
     /\ Cardinality({ f \in files : f.uniprot_id = IdOf(Last(request.pc)) }) > 1
     /\ Eligible(request.pc) # {}) =>
        /\ request.action = "getattr" =>
               produced.kind = "stat" /\ StatOfRow(produced.stat, Resolved(request.pc))
        /\ request.action = "read" =>
               produced = RBytes(Slice(BytesOfRow(Resolved(request.pc)),
                                       request.size, request.offset))

\* The buffer the archive reader hands back for a read of pc, given the decode
\* cache the read starts from.
BufferFor(cache, pc) ==
    _read_uniprot_contents(cache,
        get_uniprot_info(Last(pc), RemoveAll(pc[1], << "v" >>)))

\* What a read step of a file path must produce from the reader's outcome c.
SliceOfBuffer(c, req, out) ==
    c.ok => out = RBytes(Slice(c.buffer, req.size, req.offset))

C11_DeniedIffWriteOrReadWrite ==
    request.action = "open" =>
        /\ result = REacces <=> request.flags % 4 \in { O_WRONLY, O_RDWR }
        /\ request.flags % 4 = O_RDONLY => result = RNone

\* C11, amended: open returns EACCES exactly when the two access-mode bits of
\* flags are not O_RDONLY, which includes both bits set (access mode 3), whatever
\* the other bits and the path; with access mode O_RDONLY it succeeds.
C11_DeniedIffNotReadOnly ==
    request.action = "open" =>
        /\ result = REacces <=> request.flags % 4 # O_RDONLY
        /\ request.flags % 4 = O_RDONLY => result = RNone

\* An open for read-write with other bits set, of a path that is no file, was
\* refused.
C11_ReadWriteOpenRefused ==
    /\ request.action = "open"
    /\ request.flags % 4 = O_RDWR
    /\ request.flags > 3
    /\ request.pc = << BOGUS >>
    /\ result = REacces

\* C12: when two callbacks that query the index run concurrently, in every
\* interleaving each executes its statement and fetches its rows on a connection
\* and cursor that are open and its own, and each returns what it returns when
\* run alone; none closes or replaces what another is still using.
C12_ConcurrentCallbacksIndependent ==
    \A t \in Threads :
        /\ sql.stage[t] \in { "entered", "executed" } => CursorUsable(t, sql.cursor)
        /\ (sql.stage[t] = "idle" /\ sql.calls[t] > 0) =>
               sql.returned[t] = get_uniprot_info(sql.uniprot_id[t], << "1", "0" >>)

\* The paths outside the path grammar: an unknown first component, an axis
\* other than uniprot, pdb and taxonomy below a version root, more than six
\* components.
OffGrammar(pc) ==
    /\ pc[1] # << >>
    /\ \/ ~InVersions(pc[1])
       \/ pc[1] # README /\ Len(pc) >= 2 /\ pc[2] \notin { UNIPROT, PDB, TAXONOMY }
       \/ pc[1] # README /\ Len(pc) > 6

\* C13: getattr, readdir and read return NotFound for every path outside the
\* path grammar.
C13_OffGrammarIsNotFound ==
    (request.action \in { "getattr", "readdir", "read" } /\ OffGrammar(request.pc)) =>
        result = RNotFound

\* The directories that list member files: /<v>/uniprot/<A>/<B>, and the pdb
\* and taxonomy identifier directories, flat and nested.
IsMemberListing(pc) ==
    /\ Len(pc) >= 3
    /\ IsTag(pc[1])
    /\ InVersions(pc[1])
    /\ \/ Len(pc) = 4 /\ pc[2] = UNIPROT /\ Len(pc[3]) = 1 /\ Len(pc[4]) = 1
       \/ Len(pc) = 3 /\ pc[2] \in { PDB, TAXONOMY } /\ Len(pc[3]) > 1
       \/ Len(pc) = 5 /\ pc[2] \in { PDB, TAXONOMY } /\ Len(pc[3]) = 1 /\ Len(pc[4]) = 1

\* The two characters before the last one of an identifier.
BucketChars(id) == IF Len(id) >= 3 THEN << id[Len(id) - 2], id[Len(id) - 1] >> ELSE << >>

\* The identifiers that belong to the directory pc.
MembersIn(pc) ==
    IF pc[2] = UNIPROT
    THEN { f.uniprot_id : f \in { g \in files : BucketChars(g.uniprot_id) = pc[3] \o pc[4] } }
    ELSE IF pc[2] = TAXONOMY
    THEN { x[1] : x \in { y \in taxonomy : y[2] = Last(pc) } }
    ELSE { x[1] : x \in { y \in pdb : y[2] = StrUpper(Last(pc)) } }

\* The versions of identifier u that the version root of pc admits.
VersionsUnder(pc, u) ==
    { f.version : f \in { g \in files : g.uniprot_id = u /\ g.version <= TagVersion(pc[1]) } }

\* The entries the listing of pc must hold.
ExpectedEntries(pc) ==
    { Pinned(u, MaxOf(VersionsUnder(pc, u))) :
        u \in { w \in MembersIn(pc) : VersionsUnder(pc, w) # {} } }

\* C14: every member listing under /<v>/ holds exactly one entry per uniprot_id
\* that has a files row of version <= v and belongs to the bucket or the
\* cross-reference, named <UNIPROT_ID>_v<V>.cif with V the greatest version of
\* that identifier <= v; identifiers without such a row are not listed.
C14_MemberListingExact ==
    (request.action = "readdir" /\ IsMemberListing(request.pc)) =>
        /\ produced.kind = "gen"
        /\ Range(produced.items) = ExpectedEntries(request.pc)
        /\ Len(produced.items) = Cardinality(ExpectedEntries(request.pc))

\* The listing of /v9/pdb/2DOG, on an index that also holds version 10 of one
\* of its members, names version 9 of both members.
C14_OlderRootListsOlderVersion ==
    /\ request.action = "readdir"
    /\ request.pc = << V9, PDB, PDB1 >>
    /\ files = AllFiles
    /\ Range(produced.items) = { Pinned(UX, 9), Pinned(UY, 9) }

\* The two-character bucket directories /<v>/<axis>/<A>/<B>.
IsBucket(pc) ==
    /\ Len(pc) = 4
    /\ IsTag(pc[1])
    /\ InVersions(pc[1])
    /\ pc[2] \in { UNIPROT, PDB, TAXONOMY }
    /\ Len(pc[3]) = 1
    /\ Len(pc[4]) = 1

\* The identifier an entry of a bucket listing names.
EntryId(axis, e) == IF axis = UNIPROT THEN IdOf(e) ELSE e

\* The cross-reference table of an axis.
CrossReference(axis) == IF axis = PDB THEN pdb ELSE taxonomy

\* Identifier id of the axis of pc is cross-referenced to a files row the
\* version root of pc admits.
BackedUnder(pc, id) ==
    \E x \in CrossReference(pc[2]) :
        /\ x[2] = id
        /\ \E f \in files : f.uniprot_id = x[1] /\ f.version <= TagVersion(pc[1])

\* C15: every identifier readdir returns for a bucket directory
\* /<v>/<axis>/<A>/<B> has A+B as the two characters before its last one
\* (case-sensitively for uniprot, A+B upper-cased for pdb), and for pdb and
\* taxonomy it is cross-referenced to a files row of version <= v.
C15_BucketListingSound ==
    (request.action = "readdir" /\ IsBucket(request.pc)) =>
        /\ produced.kind = "gen"
        /\ \A i \in 1..Len(produced.items) :
               /\ BucketChars(EntryId(request.pc[2], produced.items[i])) =
                      (IF request.pc[2] = PDB
                       THEN StrUpper(request.pc[3] \o request.pc[4])
                       ELSE request.pc[3] \o request.pc[4])
               /\ request.pc[2] # UNIPROT => BackedUnder(request.pc, produced.items[i])

\* The bucket /v9/pdb/d/o has listed 2DOG, on an index that holds files rows.
C15_LowerCaseBucketListed ==
    /\ request.action = "readdir"
    /\ request.pc = << V9, PDB, << "d" >>, << "o" >> >>
    /\ files = AllFiles
    /\ produced.items = << PDB1 >>

\* The nested identifier directories /<v>/<axis>/<A>/<B>/<ID> of pdb and
\* taxonomy, ID longer than one character, and the paths of their entries.
IsNestedDirectory(pc) ==
    /\ Len(pc) = 5
    /\ IsTag(pc[1])
    /\ InVersions(pc[1])
    /\ pc[2] \in { PDB, TAXONOMY }
    /\ Len(pc[3]) = 1
    /\ Len(pc[4]) = 1
    /\ Len(pc[5]) > 1

\* The flat form of a nested path: the two bucket components left out.
Flat(pc) == << pc[1], pc[2] >> \o SubSeq(pc, 5, Len(pc))

\* The entries the flat directory of a nested member path lists.
FlatEntries(pc) ==
    Range(_fake_filesystem(<< pc[1], pc[2], pc[5] >>, "readdir", None, None).items)

\* C16: for a taxonomy or pdb identifier longer than one character the flat path
\* /<v>/<axis>/<ID> and the nested path /<v>/<axis>/<A>/<B>/<ID> are directories
\* to the same set: readdir yields the same entries under both, and every entry
\* resolves under both forms, for getattr and for read, to the same file.
C16_FlatAndNestedAgree ==
    /\ (request.action = "readdir" /\ IsNestedDirectory(request.pc)) =>
           produced = _fake_filesystem(Flat(request.pc), "readdir", None, None)
    /\ (/\ request.action = "getattr"
        /\ Len(request.pc) = 6
        /\ IsNestedDirectory(SubSeq(request.pc, 1, 5))
        /\ request.pc[6] \in FlatEntries(request.pc)) =>
           /\ produced = _fake_filesystem(Flat(request.pc), "getattr", None, None)
           /\ _fake_filesystem(request.pc, "read", 0, 0) =
                  _fake_filesystem(Flat(request.pc), "read", 0, 0)

\* The reads C17 is about: of a file path with no pinned version that resolves
\* to a row, none of whose identifier's buffers the decode cache holds.
IsUncachedRead(cache, req) ==
    /\ req.action = "read"
    /\ IsFilePath(req.pc)
    /\ ~IsPinned(Last(req.pc))
    /\ Eligible(req.pc) # {}
    /\ \A i \in 1..Len(cache) : cache[i].key # IdOf(Last(req.pc))

Published == { "files", "pdb", "taxonomy", "taxonomy_unique" }

\* The complete table a run of the indexer is to publish under name t.
NewTables(t) ==
    CASE t = "files" -> { Table(db.input.files) }
      [] t = "pdb" -> { Table(db.input.pdb) }
      [] t = "taxonomy" -> { Table(db.input.taxonomy) }
      [] t = "taxonomy_unique" ->
             { Table(SelectDistinct("taxonomy", T)) :
                 T \in { db.input.taxonomy, db.previous["taxonomy"].rows } }

\* A reader of the committed index sees table t as it was when the run began, or
\* complete as the run is to leave it.
OldOrNew(t) == db.committed[t] = db.previous[t] \/ db.committed[t] \in NewTables(t)

\* C18: during an index rebuild, at every point between two indexer steps, a
\* reader sees each published table (files, pdb, taxonomy, taxonomy_unique)
\* either as the complete previous table or as the complete new table, never
\* missing and never partially filled.
C18_ReaderSeesOldOrNewTable ==
    db.position > 0 => \A t \in Published : OldOrNew(t)

\* A run of the indexer that rebuilt the cross-reference tables is over.
CrossReferenceRebuildOver(outcome) ==
    /\ db.position = 0
    /\ db.rebuilds > 0
    /\ db.args.rebuild_pdb
    /\ db.outcome = outcome

\* C19: after every completed cross-reference rebuild, the first one on an empty
\* index file included (which therefore completes), taxonomy_unique holds
\* exactly the distinct taxonomy_id values of the taxonomy table that the same
\* rebuild published.
C19_TaxonomyUniqueOfSameRebuild ==
    /\ ~CrossReferenceRebuildOver("failed")
    /\ CrossReferenceRebuildOver("done") =>
           /\ db.committed["taxonomy"] = Table(db.input.taxonomy)
           /\ db.committed["taxonomy_unique"] =
                  Table(SelectDistinct("taxonomy", db.committed["taxonomy"].rows))

\* A directory stat: type directory, permission bits 0o555, two links.
IsDirectoryStat(st) ==
    /\ st.st_mode = S_IFDIR + Perm555
    /\ st.st_nlink = 2

\* A file stat: type regular, permission bits 0o444, one link, a defined size.
IsFileStat(st) ==
    /\ st.st_mode = S_IFREG + Perm444
    /\ st.st_nlink = 1
    /\ st.st_size # None

\* A file stat whose size and times are those of a row of files.
IsFileStatOfRow(st) ==
    /\ IsFileStat(st)
    /\ \E f \in files :
           /\ st.st_size = f.expanded_size
           /\ st.st_mtime = f.modification_time
           /\ st.st_ctime = f.modification_time

\* C20: every Stat getattr returns is a directory stat (directory, 0o555, link
\* count 2) or a file stat (regular, 0o444, link count 1, size the row's
\* expanded_size, mtime and ctime the row's modification_time; for /README,
\* which has no row, the length of its text); none has a write permission bit
\* or an undefined size.
C20_StatIsDirectoryOrFile ==
    (request.action = "getattr" /\ produced.kind = "stat") =>
        \/ IsDirectoryStat(produced.stat)
        \/ IsFileStatOfRow(produced.stat)
        \/ /\ request.pc[1] = README
           /\ IsFileStat(produced.stat)
           /\ produced.stat.st_size = Len(ReadmeData)

\* The positions of the helper's events of one kind.
EventsOf(kind) == { i \in 1..Len(mc.events) : mc.events[i].kind = kind }

\* The positions at which a signal was sent.
Signals == EventsOf("terminate") \cup EventsOf("kill")

\* The first unmount attempt failed because the target is busy.
FirstAttemptBusy ==
    /\ mc.events # << >>
    /\ mc.events[1] = Event("umount", 0, "target is busy")

\* C21: forceunmount signals no process unless its first unmount attempt fails
\* because the target is busy; every selected process is sent terminate before
\* any process is sent kill; kill is sent only to processes still running after
\* the wait; a second unmount attempt comes last, and the helper exits with
\* failure exactly when that second attempt fails.
C21_ForceUnmountOrder ==
    /\ Signals # {} => FirstAttemptBusy
    /\ \A k \in EventsOf("kill") :
           /\ \A u \in Range(mc.using) :
                  \E t \in EventsOf("terminate") : t < k /\ mc.events[t].pid = u
           /\ \A t \in EventsOf("terminate") : t < k
           /\ mc.events[k].pid \in Range(mc.remaining)
    /\ (mc.stage = "over" /\ FirstAttemptBusy) =>
           /\ Len(mc.events) >= 2
           /\ mc.events[Len(mc.events)].kind = "umount"
    /\ mc.stage = "over" =>
           (mc.exit = "failure" <=>
               \E a \in EventsOf("umount") :
                   a > 1 /\ a = Len(mc.events) /\ mc.events[a].err # NoneStr)

\* A process uses the mountpoint: its working directory or one of its open
\* files is the mountpoint or lies beneath it.
UsesMountpoint(p) ==
    \/ Beneath(Processes[p].cwd, mc.mountpoint)
    \/ \E f \in Range(Processes[p].open_files) : Beneath(f, mc.mountpoint)

\* C25: forceunmount sends terminate or kill only to processes whose working
\* directory or an open file is the mountpoint or lies beneath it, never to one
\* that only uses a sibling path with the mountpoint as a string prefix, and to
\* each selected process at most once per signal kind.
C25_OnlyUsersSignalledOnce ==
    /\ \A i \in Signals : UsesMountpoint(mc.events[i].pid)
    /\ \A i, j \in Signals :
           (mc.events[i].kind = mc.events[j].kind /\ mc.events[i].pid = mc.events[j].pid)
               => i = j

\* The words of a string, separated by spaces.
RECURSIVE Words(_)
Words(s) ==
    IF s = << >> THEN << >>
    ELSE LET i == FindChar(s, " ", 1)
             rest == IF i > Len(s) THEN << >> ELSE Words(SubSeq(s, i + 1, Len(s)))
         IN  IF i = 1 THEN rest ELSE << SubSeq(s, 1, i - 1) >> \o rest

IsPruneLine(line) == StartsWith(line, PRUNEPATHS)

\* The path entries of the PRUNEPATHS value of a line.
PruneEntries(line) == Words(SplitMax(StripNewlines(line), QUOTE, 2)[2])

\* The entries of seq other than e, in order.
RECURSIVE Others(_, _)
Others(seq, e) ==
    IF seq = << >> THEN << >>
    ELSE (IF seq[1] = e THEN << >> ELSE << seq[1] >>) \o Others(Tail(seq), e)

\* C22: for a configuration file with a well-formed PRUNEPATHS="..." line, after
\* one or more runs of the helper with the same mountpoint the PRUNEPATHS value
\* lists the mountpoint exactly once as a path entry, a second run changes
\* nothing, the paths already listed stay, and every other line keeps its
\* content and its place.
C22_MountpointListedOnce ==
    Len(conf.history) >= 2 =>
        /\ Len(conf.lines) = Len(conf.history[1])
        /\ \A i \in 1..Len(conf.lines) :
               IF IsPruneLine(conf.history[1][i])
               THEN /\ IsPruneLine(conf.lines[i])
                    /\ Len(PruneEntries(conf.lines[i]))
                         - Len(Others(PruneEntries(conf.lines[i]), conf.mountpoint)) = 1
                    /\ Others(PruneEntries(conf.lines[i]), conf.mountpoint) =
                         Others(PruneEntries(conf.history[1][i]), conf.mountpoint)
               ELSE conf.lines[i] = conf.history[1][i]
        /\ \A k \in 2..Len(conf.history) : conf.history[k] = conf.history[2]

\* The least multiple of 512 that is no less than n.
LeastMultiple(n) == CHOOSE m \in n..(n + 511) : m % 512 = 0

\* The lines of the listing that name a structure, in order: the k-th recorded
\* row is that of the k-th of them.
RECURSIVE StructureLines(_, _)
StructureLines(archive, k) ==
    IF k > Len(archive) THEN << >>
    ELSE (IF archive[k].name = CIFNAME THEN << k >> ELSE << >>)
         \o StructureLines(archive, k + 1)

\* What holds of the row recorded for member k of the archive.
RowPointsAtMember(row, k) ==
    /\ row.offset % 512 = 0
    /\ row.offset = HeaderPosition(scan.archive, k)
    /\ row.size = scan.archive[k].size
    /\ row.offset + 512 + row.size <= HeaderPosition(scan.archive, k + 1)

\* C23: while one archive is scanned, the running offset after each listed
\* member is the previous offset plus 512 plus the member's size, rounded up to
\* the next multiple of 512, round_to_512(n) being the least multiple of 512
\* that is >= n; so every offset recorded for files is a multiple of 512 and the
\* position of its member's header, and the payload read at serve time, at
\* offset + 512, is the member's data.
C23_OffsetsAreHeaderPositions ==
    scan.line >= 1 =>
        /\ \A m \in Range(scan.archive) :
               round_to_512(scan.offset + m.size + 512) =
                   LeastMultiple(scan.offset + m.size + 512)
        /\ scan.offset % 512 = 0
        /\ scan.offset = HeaderPosition(scan.archive, scan.line)
        /\ \A i \in 1..Len(scan.files) :
               RowPointsAtMember(scan.files[i], StructureLines(scan.archive, 1)[i])

\* A structure was recorded behind a member whose size is no multiple of 512.
C23_RecordedAfterPadding ==
    /\ scan.line = Len(scan.archive) + 1
    /\ \E i \in 1..Len(scan.files) :
           LET k == StructureLines(scan.archive, 1)[i]
           IN  /\ k > 1
               /\ scan.archive[k - 1].size % 512 = 1
               /\ scan.files[i].offset = HeaderPosition(scan.archive, k)
               /\ scan.files[i].uniprot_id = UX
               /\ scan.files[i].version = << "9" >>

\* The axis directories /<v>/<axis>.
IsAxisRoot(pc) ==
    /\ Len(pc) = 2
    /\ IsTag(pc[1])
    /\ InVersions(pc[1])
    /\ pc[2] \in { UNIPROT, PDB, TAXONOMY }

\* The identifiers of the axis of pc that have a backing files row of a version
\* the version root of pc admits.
BackedIds(pc) ==
    IF pc[2] = UNIPROT
    THEN { f.uniprot_id : f \in { g \in files : g.version <= TagVersion(pc[1]) } }
    ELSE { x[2] : x \in { y \in CrossReference(pc[2]) : BackedUnder(pc, y[2]) } }

\* The entries readdir yields for pc.
Listing(pc) == Range(_fake_filesystem(pc, "readdir", None, None).items)

\* Some bucket directory under the axis directory pc, reached through the
\* entries that readdir yields on the way (top being those of pc), lists id.
ReachableByListing(pc, top, id) ==
    \E a \in top : \E b \in Listing(Append(pc, a)) :
        \E e \in Listing(pc \o << a, b >>) : EntryId(pc[2], e) = id

\* C24: every identifier with a backing files row of version <= v (uniprot IDs,
\* cross-referenced pdb IDs and taxonomy IDs, those with a 0 in a bucket position
\* or shorter than three characters included) is reachable by listing: from
\* /<v>/<axis>, following only entries readdir yields, some bucket directory
\* /<v>/<axis>/<A>/<B> lists it.
C24_BackedIdsReachable ==
    (request.action = "readdir" /\ IsAxisRoot(request.pc)) =>
        \A id \in BackedIds(request.pc) :
            ReachableByListing(request.pc, Range(produced.items), id)

=============================================================================
